---- MODULE Spec2Model ----
(***************************************************************************)
(* ReactRadar brand analysis pipeline: statement scoring                   *)
(* (sentiment_analyzer.py), segmentation (brand_segmenter.py), insight     *)
(* synthesis (insight_generator.py) and the orchestrating run              *)
(* (analysis_engine.py).                                                   *)
(*                                                                         *)
(* Numbers.  Python floats that are quotients of small integers are kept   *)
(* as reduced fractions [num, den]; values that the code rounds or reads   *)
(* from decimal literals (prices, rounded ratings, percentages) are kept   *)
(* in fixed point: thousandths for prices, ratings and scores of a rating  *)
(* row, tenths of a percent for percentages.                               *)
(*                                                                         *)
(* Texts.  analyze_statement reads a text only through the number of       *)
(* keywords of each of its three sets that occur in it as substrings, and  *)
(* extract_statements_about_brand only through the brand names that occur  *)
(* in it.  A text is the record of exactly that: the lower-cased names it  *)
(* mentions and its three keyword counts.                                  *)
(***************************************************************************)
EXTENDS Integers, Sequences, FiniteSets, TLC

\* ------------------------------------------------------------------ bounds

\* Most segments handed to generate_comparative_insights in a call of its own.
MaxSegments == 2
\* The longest transcript that is spelled out character by character.
MaxChars == 4
\* The longest transcript whose run is repeated on the same engine.
MaxRerunSentences == 1

\* Longest transcript, in pieces between sentence terminators.
MaxSentences == 2
\* Longest array of names in a brand-discovery response.
MaxResponseLen == 2
\* Longest statement list handed directly to analyze_brand_statements.
MaxStatements == 2
\* Highest rating (in thousandths) handed directly to segment_brand and
\* _categorize_quality: 5 stars.
MaxRatingMilli == 5000
\* Highest price (in thousandths of a dollar) handed directly to _categorize_price.
MaxPriceMilli == 1500

\* ------------------------------------------------------------- arithmetic

\* Optional values: None is the empty sequence, a present value v is <<v>>.
None == <<>>
Some(v) == <<v>>

Abs(x) == IF x < 0 THEN -x ELSE x

RECURSIVE GCD(_, _)
GCD(a, b) == IF b = 0 THEN a ELSE GCD(b, a % b)

\* The fraction n/d (d > 0) in lowest terms: equal floats are equal records.
Frac(n, d) ==
    LET g == GCD(Abs(n), d)
    IN  [num |-> n \div g, den |-> d \div g]

FracAdd(a, b) == Frac(a.num * b.den + b.num * a.den, a.den * b.den)
FracDivInt(a, k) == Frac(a.num, a.den * k)
FracLt(a, b) == a.num * b.den < b.num * a.den
FracLe(a, b) == a.num * b.den <= b.num * a.den
FracGt(a, b) == FracLt(b, a)
FracGe(a, b) == FracLe(b, a)

\* Python's round(n/d * scale-per-unit) to an integer number of units, for
\* n/d >= 0: nearest, a tie going to the even neighbour.
RoundUnits(n, d, units) ==
    LET x == n * units
        q == x \div d
        r == x % d
    IN  IF 2 * r < d THEN q
        ELSE IF 2 * r > d THEN q + 1
        ELSE IF q % 2 = 0 THEN q ELSE q + 1

RECURSIVE SumSeq(_)
SumSeq(s) == IF s = <<>> THEN 0 ELSE Head(s) + SumSeq(Tail(s))

RECURSIVE FracSum(_)
FracSum(s) == IF s = <<>> THEN Frac(0, 1) ELSE FracAdd(Head(s), FracSum(Tail(s)))

\* sum(1 for r in results if r.label == label)
CountLabel(results, label) ==
    Cardinality({k \in 1..Len(results) : results[k].label = label})

\* ------------------------------------------------- sentiment_analyzer.py

positive_keywords ==
    {"excellent", "great", "good", "best", "outstanding", "impressive",
     "recommend", "love", "enjoy", "smooth", "delicious", "rich",
     "high quality", "solid", "versatile", "convenient", "effective"}

negative_keywords ==
    {"bad", "poor", "worst", "terrible", "disappointing", "awful",
     "expensive", "overpriced", "clumpy", "gritty", "artificial",
     "aftertaste", "digestive", "discomfort", "drawback", "downside"}

neutral_keywords ==
    {"offers", "contains", "delivers", "provides", "includes",
     "available", "priced", "costs", "flavors", "serving"}

\* The lower-cased brand names a piece of transcript can contain.
MentionNames == {"accent", "kirkland"}

\* Every keyword profile a text can have.  The neutral keyword "priced" is a
\* substring of the negative keyword "overpriced", so a text that holds all
\* the negative keywords holds at least one neutral keyword; no other
\* keyword contains another.
KeywordProfiles ==
    {t \in [pos : 0..Cardinality(positive_keywords),
            neg : 0..Cardinality(negative_keywords),
            neu : 0..Cardinality(neutral_keywords)] :
        t.neg = Cardinality(negative_keywords) => t.neu >= 1}

Text(mentions, pos, neg, neu) ==
    [mentions |-> mentions, pos |-> pos, neg |-> neg, neu |-> neu]

\* A star rating with strict bounds: a score of exactly 0.8 gets 4 stars.
_score_to_rating_strict(score) ==
    IF FracGt(score, Frac(8, 10)) THEN 5
    ELSE IF FracGt(score, Frac(6, 10)) THEN 4
    ELSE IF FracGt(score, Frac(4, 10)) THEN 3
    ELSE IF FracGt(score, Frac(2, 10)) THEN 2
    ELSE 1

\* score >= 0.8 -> 5, >= 0.6 -> 4, >= 0.4 -> 3, >= 0.2 -> 2, else 1
_score_to_rating(score) ==
    IF FracGe(score, Frac(8, 10)) THEN 5
    ELSE IF FracGe(score, Frac(6, 10)) THEN 4
    ELSE IF FracGe(score, Frac(4, 10)) THEN 3
    ELSE IF FracGe(score, Frac(2, 10)) THEN 2
    ELSE 1

\* A score left in [-1, 1]: the normalisation step forgotten.
statement_score_unnormalized(positive_count, negative_count, neutral_count) ==
    LET total_keywords == positive_count + negative_count + neutral_count
    IN  IF total_keywords = 0 THEN Frac(1, 2)
        ELSE Frac(positive_count - negative_count, total_keywords)

\* A score that counts neutral keywords as evidence against the brand.
statement_score_neutral_against(positive_count, negative_count, neutral_count) ==
    LET total_keywords == positive_count + negative_count + neutral_count
    IN  IF total_keywords = 0 THEN Frac(1, 2)
        ELSE FracDivInt(
                 FracAdd(Frac(positive_count - negative_count - neutral_count, total_keywords),
                         Frac(1, 1)),
                 2)

\* analyze_statement, lines 60-65: 0.5 without keywords, else
\* (positive - negative) / total, normalised from [-1, 1] to [0, 1].
statement_score(positive_count, negative_count, neutral_count) ==
    LET total_keywords == positive_count + negative_count + neutral_count
    IN  IF total_keywords = 0 THEN Frac(1, 2)
        ELSE FracDivInt(
                 FracAdd(Frac(positive_count - negative_count, total_keywords),
                         Frac(1, 1)),
                 2)

\* A label with inclusive bounds: 0.6 is POSITIVE, 0.4 is NEGATIVE.
statement_label_inclusive(score) ==
    IF FracGe(score, Frac(6, 10)) THEN "POSITIVE"
    ELSE IF FracLe(score, Frac(4, 10)) THEN "NEGATIVE"
    ELSE "NEUTRAL"

\* analyze_statement, lines 67-72.
statement_label(score) ==
    IF FracGt(score, Frac(6, 10)) THEN "POSITIVE"
    ELSE IF FracLt(score, Frac(4, 10)) THEN "NEGATIVE"
    ELSE "NEUTRAL"

analyze_statement(text) ==
    LET positive_count == text.pos
        negative_count == text.neg
        neutral_count == text.neu
        score == statement_score(positive_count, negative_count, neutral_count)
    IN  [text |-> text, label |-> statement_label(score), score |-> score,
         rating |-> _score_to_rating(score)]

BrandSentiment(brand, statements, avg_score, avg_rating, pos_n, neg_n, neu_n) ==
    [brand |-> brand, statements |-> statements, avg_score |-> avg_score,
     avg_rating |-> avg_rating, positive_count |-> pos_n,
     negative_count |-> neg_n, neutral_count |-> neu_n]

\* An aggregation that tallies POSITIVE by score >= 0.6 instead of by label.
analyze_brand_statements_by_score(brand, statements) ==
    LET sentiment_results ==
            [k \in 1..Len(statements) |-> analyze_statement(statements[k])]
        n == Len(sentiment_results)
    IN  IF n = 0
        THEN BrandSentiment(brand, <<>>, Frac(0, 1), Frac(0, 1), 0, 0, 0)
        ELSE BrandSentiment(
                 brand,
                 sentiment_results,
                 FracDivInt(FracSum([k \in 1..n |-> sentiment_results[k].score]), n),
                 Frac(SumSeq([k \in 1..n |-> sentiment_results[k].rating]), n),
                 Cardinality({k \in 1..n : FracGe(sentiment_results[k].score, Frac(6, 10))}),
                 CountLabel(sentiment_results, "NEGATIVE"),
                 CountLabel(sentiment_results, "NEUTRAL"))

analyze_brand_statements(brand, statements) ==
    LET sentiment_results ==
            [k \in 1..Len(statements) |-> analyze_statement(statements[k])]
        n == Len(sentiment_results)
    IN  IF n = 0
        THEN BrandSentiment(brand, <<>>, Frac(0, 1), Frac(0, 1), 0, 0, 0)
        ELSE BrandSentiment(
                 brand,
                 sentiment_results,
                 FracDivInt(FracSum([k \in 1..n |-> sentiment_results[k].score]), n),
                 Frac(SumSeq([k \in 1..n |-> sentiment_results[k].rating]), n),
                 CountLabel(sentiment_results, "POSITIVE"),
                 CountLabel(sentiment_results, "NEGATIVE"),
                 CountLabel(sentiment_results, "NEUTRAL"))

\* A projection that keeps the averages of a BrandSentiment without
\* statements.
create_rating_summary_keeping_averages(brand_sentiment) ==
    [brand |-> brand_sentiment.brand,
     avg_rating |->
         10 * RoundUnits(brand_sentiment.avg_rating.num, brand_sentiment.avg_rating.den, 100),
     avg_score |->
         RoundUnits(brand_sentiment.avg_score.num, brand_sentiment.avg_score.den, 1000),
     total_statements |-> Len(brand_sentiment.statements),
     positive_percentage |-> 0,
     negative_percentage |-> 0,
     neutral_percentage |-> 0,
     statements |->
         [k \in 1..Len(brand_sentiment.statements) |->
             [text |-> brand_sentiment.statements[k].text,
              label |-> brand_sentiment.statements[k].label,
              rating |-> brand_sentiment.statements[k].rating]]]

\* The projection of a BrandSentiment to a rating row: avg_rating rounded to
\* 2 decimals, avg_score to 3 (both kept in thousandths), percentages to 1
\* decimal (kept in tenths of a percent).
create_rating_summary(brand_sentiment) ==
    LET total == Len(brand_sentiment.statements)
    IN  IF total = 0
        THEN [brand |-> brand_sentiment.brand,
              avg_rating |-> 0,
              avg_score |-> 0,
              total_statements |-> 0,
              positive_percentage |-> 0,
              negative_percentage |-> 0,
              neutral_percentage |-> 0,
              statements |-> <<>>]
        ELSE [brand |-> brand_sentiment.brand,
              avg_rating |->
                  10 * RoundUnits(brand_sentiment.avg_rating.num,
                                  brand_sentiment.avg_rating.den, 100),
              avg_score |->
                  RoundUnits(brand_sentiment.avg_score.num,
                             brand_sentiment.avg_score.den, 1000),
              total_statements |-> total,
              positive_percentage |->
                  RoundUnits(brand_sentiment.positive_count, total, 1000),
              negative_percentage |->
                  RoundUnits(brand_sentiment.negative_count, total, 1000),
              neutral_percentage |->
                  RoundUnits(brand_sentiment.neutral_count, total, 1000),
              statements |->
                  [k \in 1..total |->
                      [text |-> brand_sentiment.statements[k].text,
                       label |-> brand_sentiment.statements[k].label,
                       rating |-> brand_sentiment.statements[k].rating]]]

\* ----------------------------------------------------------------- state

VARIABLES
    arg,                 \* the call a client makes: [op, ...its arguments]
    pc,                  \* where that call stands
    ret,                 \* what the call returned: None until it returns
    known_brands,        \* BrandExtractor.known_brands
    brand_data,          \* BrandSegmenter.brand_data, the attribute catalog
    price_thresholds,    \* BrandSegmenter.price_thresholds, in insertion order
    quality_thresholds,  \* BrandSegmenter.quality_thresholds, in insertion order
    brands,              \* run_full_analysis: the discovered brands
    brand_sentiments,    \* run_full_analysis: one BrandSentiment per processed brand
    brand_ratings,       \* run_full_analysis: one rating row per processed brand
    brand_segments,      \* run_full_analysis: the segments
    brand_insights,      \* run_full_analysis: the insights
    comparative_insights,\* run_full_analysis: the comparative insight dict
    summary,             \* run_full_analysis: the roll-up summary dict
    i,                   \* the cursor of the loop the run is in
    response_kind,       \* what kind of answer the brand discovery got: None before it
    saved,               \* the files save_analysis_results has written
    response_data,       \* the data the /analyze endpoint answers with: None before it
    earlier              \* the first of two runs on the engine: None during it

engine_vars == <<known_brands, brand_data, price_thresholds, quality_thresholds>>
run_vars == <<brands, brand_sentiments, brand_ratings, brand_segments, brand_insights, comparative_insights, summary, i>>
io_vars == <<response_kind, saved, response_data, earlier>>
vars == <<arg, pc, ret, engine_vars, run_vars, io_vars>>

\* --------------------------------------------------- brand_segmenter.py

\* brand.lower().strip(): the lower-cased form of a brand name.
Lower(name) ==
    CASE name = "Accent" -> "accent"
      [] name = "Isopure" -> "isopure"
      [] name = "Kirkland" -> "kirkland"
      [] OTHER -> name

\* float('inf'): above every price and rating.
Inf == 1000000000

InitialPriceThresholds ==
    << [category |-> "BUDGET", threshold |-> 900],
       [category |-> "MID_RANGE", threshold |-> 1200],
       [category |-> "PREMIUM", threshold |-> Inf] >>

InitialQualityThresholds ==
    << [category |-> "BASIC", threshold |-> 4000],
       [category |-> "STANDARD", threshold |-> 4500],
       [category |-> "PREMIUM", threshold |-> Inf] >>

\* One catalog entry; the price is in thousandths of a dollar.
Attributes(price, protein, tested, sweeteners, features) ==
    [price_per_serving |-> price, protein_content |-> protein,
     third_party_tested |-> tested, artificial_sweeteners |-> sweeteners,
     features |-> features]

CatalogBrands ==
    {"Kirkland", "Isopure", "Datiz", "Accent", "My Protein", "Optimum Nutrition"}

InitialBrandData ==
    [b \in CatalogBrands |->
        CASE b = "Kirkland" ->
               Attributes(780, 25, FALSE, TRUE,
                          <<"Costco brand", "Good mixability", "Budget friendly">>)
          [] b = "Isopure" ->
               Attributes(1300, 25, FALSE, TRUE,
                          <<"High protein percentage", "Added vitamins", "Premium quality">>)
          [] b = "Datiz" ->
               Attributes(1260, 25, TRUE, TRUE,
                          <<"Third party tested", "High protein content", "BCAAs included">>)
          [] b = "Accent" ->
               Attributes(880, 25, TRUE, FALSE,
                          <<"Clean ingredients", "No artificial sweeteners", "Athlete tested">>)
          [] b = "My Protein" ->
               Attributes(620, 25, TRUE, TRUE,
                          <<"Best value", "High protein percentage", "Third party tested">>)
          [] b = "Optimum Nutrition" ->
               Attributes(880, 24, FALSE, TRUE,
                          <<"Widely recognized", "18 flavors", "Good value">>)]

\* dict.get(key): None when the key is absent.
DictGet(d, key) == IF key \in DOMAIN d THEN Some(d[key]) ELSE None
\* dict.get(key, default)
DictGetOr(d, key, default) == IF key \in DOMAIN d THEN d[key] ELSE default

\* for category, threshold in table.items(): if value <= threshold: return category
RECURSIVE FirstCategory(_, _, _)
FirstCategory(table, value, fallthrough) ==
    IF table = <<>> THEN fallthrough
    ELSE IF value <= Head(table).threshold THEN Head(table).category
    ELSE FirstCategory(Tail(table), value, fallthrough)

\* First match with exclusive upper bounds: if value < threshold.
RECURSIVE FirstCategoryBelow(_, _, _)
FirstCategoryBelow(table, value, fallthrough) ==
    IF table = <<>> THEN fallthrough
    ELSE IF value < Head(table).threshold THEN Head(table).category
    ELSE FirstCategoryBelow(Tail(table), value, fallthrough)

\* A price categorisation with exclusive upper bounds: 0.90 is MID_RANGE.
_categorize_price_exclusive(price_per_serving) ==
    IF price_per_serving = None THEN "MID_RANGE"
    ELSE FirstCategoryBelow(price_thresholds, price_per_serving[1], "PREMIUM")

_categorize_price(price_per_serving) ==
    IF price_per_serving = None THEN "MID_RANGE"
    ELSE FirstCategory(price_thresholds, price_per_serving[1], "PREMIUM")

\* First match with the thresholds read as lower bounds: if value >= threshold.
RECURSIVE FirstCategoryAbove(_, _, _)
FirstCategoryAbove(table, value, fallthrough) ==
    IF table = <<>> THEN fallthrough
    ELSE IF value >= Head(table).threshold THEN Head(table).category
    ELSE FirstCategoryAbove(Tail(table), value, fallthrough)

\* A quality categorisation that reads the thresholds as lower bounds: a
\* rating of 4.0 or more is BASIC, a lower one falls through to PREMIUM.
_categorize_quality_from_below(avg_rating) ==
    FirstCategoryAbove(quality_thresholds, avg_rating, "PREMIUM")

\* A quality categorisation with exclusive upper bounds: 4.5 is PREMIUM.
_categorize_quality_exclusive(avg_rating) ==
    FirstCategoryBelow(quality_thresholds, avg_rating, "PREMIUM")

_categorize_quality(avg_rating) ==
    FirstCategory(quality_thresholds, avg_rating, "PREMIUM")

\* A segmentation that looks the brand up whatever its case: "kirkland" gets
\* the attributes of "Kirkland".
segment_brand_any_case(brand, avg_rating) ==
    LET matches == {b \in DOMAIN brand_data : Lower(b) = Lower(brand)}
        brand_info == IF matches # {} THEN brand_data[CHOOSE b \in matches : TRUE] ELSE <<>>
        price_per_serving == DictGet(brand_info, "price_per_serving")
    IN  [brand |-> brand,
         price_category |-> _categorize_price(price_per_serving),
         quality_category |-> _categorize_quality(avg_rating),
         avg_rating |-> avg_rating,
         price_per_serving |-> price_per_serving,
         protein_content |-> DictGet(brand_info, "protein_content"),
         third_party_tested |-> DictGetOr(brand_info, "third_party_tested", FALSE),
         artificial_sweeteners |-> DictGetOr(brand_info, "artificial_sweeteners", FALSE),
         features |-> DictGetOr(brand_info, "features", <<>>)]

segment_brand(brand, avg_rating) ==
    LET brand_info == IF brand \in DOMAIN brand_data THEN brand_data[brand] ELSE <<>>
        price_per_serving == DictGet(brand_info, "price_per_serving")
    IN  [brand |-> brand,
         price_category |-> _categorize_price(price_per_serving),
         quality_category |-> _categorize_quality(avg_rating),
         avg_rating |-> avg_rating,
         price_per_serving |-> price_per_serving,
         protein_content |-> DictGet(brand_info, "protein_content"),
         third_party_tested |-> DictGetOr(brand_info, "third_party_tested", FALSE),
         artificial_sweeteners |-> DictGetOr(brand_info, "artificial_sweeteners", FALSE),
         features |-> DictGetOr(brand_info, "features", <<>>)]

\* segment_all_brands, one row of its loop: a row whose brand is falsy (the
\* empty name) is passed over.
SegmentsAfterRow(segments, row) ==
    IF row.brand # "" THEN Append(segments, segment_brand(row.brand, row.avg_rating))
    ELSE segments

\* PriceCategory.<NAME>.value and QualityCategory.<NAME>.value
CategoryValue(category) ==
    CASE category = "BUDGET" -> "budget"
      [] category = "MID_RANGE" -> "mid_range"
      [] category = "PREMIUM" -> "premium"
      [] category = "BASIC" -> "basic"
      [] category = "STANDARD" -> "standard"

\* PriceCategory(value) and QualityCategory(value): the member of that value.
CategoryOf(value) ==
    CASE value = "budget" -> "BUDGET"
      [] value = "mid_range" -> "MID_RANGE"
      [] value = "premium" -> "PREMIUM"
      [] value = "basic" -> "BASIC"
      [] value = "standard" -> "STANDARD"

\* len([s for s in segments if s.<field> == category])
CountOf(segments, field, category) ==
    Cardinality({k \in 1..Len(segments) : segments[k][field] = category})

\* An entry whose quality_category is filled from the price category.
BrandEntryPriceTwice(segment) ==
    [brand |-> segment.brand,
     price_category |-> CategoryValue(segment.price_category),
     quality_category |-> CategoryValue(segment.price_category),
     avg_rating |-> segment.avg_rating,
     price_per_serving |-> segment.price_per_serving,
     protein_content |-> segment.protein_content,
     third_party_tested |-> segment.third_party_tested,
     artificial_sweeteners |-> segment.artificial_sweeteners,
     features |-> segment.features]

\* create_segmentation_summary, lines 246-256: the entry of one segment.
BrandEntry(segment) ==
    [brand |-> segment.brand,
     price_category |-> CategoryValue(segment.price_category),
     quality_category |-> CategoryValue(segment.quality_category),
     avg_rating |-> segment.avg_rating,
     price_per_serving |-> segment.price_per_serving,
     protein_content |-> segment.protein_content,
     third_party_tested |-> segment.third_party_tested,
     artificial_sweeteners |-> segment.artificial_sweeteners,
     features |-> segment.features]

create_segmentation_summary(segments) ==
    [total_brands |-> Len(segments),
     price_categories |->
         [budget |-> CountOf(segments, "price_category", "BUDGET"),
          mid_range |-> CountOf(segments, "price_category", "MID_RANGE"),
          premium |-> CountOf(segments, "price_category", "PREMIUM")],
     quality_categories |->
         [basic |-> CountOf(segments, "quality_category", "BASIC"),
          standard |-> CountOf(segments, "quality_category", "STANDARD"),
          premium |-> CountOf(segments, "quality_category", "PREMIUM")],
     brands |-> [k \in 1..Len(segments) |-> BrandEntry(segments[k])]]

\* ------------------------------------------------- insight_generator.py

\* A list that holds `phrase` when `cond` holds and nothing otherwise.
When(cond, phrase) == IF cond THEN <<phrase>> ELSE <<>>

\* `x and x < bound` / `x and x >= bound` on an optional number: None and 0 are falsy.
TruthyBelow(opt, bound) == opt # None /\ opt[1] # 0 /\ opt[1] < bound
TruthyAtLeast(opt, bound) == opt # None /\ opt[1] # 0 /\ opt[1] >= bound

\* " ".join(parts) + ".": a text is the sequence of its parts.
JoinWithPeriod(parts) == parts \o <<".">>

_generate_summary(segment) ==
    JoinWithPeriod(
        << segment.brand >>
        \o (IF segment.quality_category = "PREMIUM" THEN <<"is a premium protein powder">>
            ELSE IF segment.quality_category = "STANDARD"
                 THEN <<"is a solid, reliable protein powder">>
            ELSE <<"is a basic protein powder">>)
        \o (IF segment.avg_rating >= 4500 THEN <<"with excellent customer ratings">>
            ELSE IF segment.avg_rating >= 4000 THEN <<"with good customer ratings">>
            ELSE <<"with average customer ratings">>)
        \o (IF segment.price_category = "BUDGET" THEN <<"at an affordable price point">>
            ELSE IF segment.price_category = "PREMIUM" THEN <<"at a premium price point">>
            ELSE <<"at a mid-range price point">>)
        \o When(segment.third_party_tested,
                "and is third-party tested for quality assurance")
        \o When(~segment.artificial_sweeteners, "with no artificial sweeteners"))

_identify_strengths(segment) ==
    (IF segment.quality_category = "PREMIUM" THEN <<"Premium quality and performance">>
     ELSE When(segment.avg_rating >= 4500, "High customer satisfaction"))
    \o (IF segment.price_category = "BUDGET" THEN <<"Excellent value for money">>
        ELSE When(TruthyBelow(segment.price_per_serving, 1000), "Competitive pricing"))
    \o When(segment.third_party_tested, "Third-party quality testing")
    \o When(~segment.artificial_sweeteners, "Clean ingredient profile")
    \o When(TruthyAtLeast(segment.protein_content, 25), "High protein content per serving")
    \o segment.features

_identify_weaknesses(segment) ==
    When(segment.quality_category = "BASIC", "Basic quality level")
    \o When(segment.avg_rating < 4000, "Lower customer satisfaction")
    \o When(segment.price_category = "PREMIUM", "Higher price point")
    \o When(~segment.third_party_tested, "No third-party testing")
    \o When(segment.artificial_sweeteners, "Contains artificial sweeteners")
    \o When(TruthyBelow(segment.protein_content, 24),
            "Lower protein content compared to competitors")

_generate_recommendations(segment) ==
    (IF segment.quality_category = "PREMIUM"
         THEN <<"Ideal for serious athletes and fitness enthusiasts">>
     ELSE IF segment.quality_category = "STANDARD"
         THEN <<"Good choice for regular gym-goers">>
     ELSE <<"Suitable for beginners or casual users">>)
    \o (IF segment.price_category = "BUDGET"
            THEN <<"Perfect for budget-conscious consumers">>
        ELSE When(segment.price_category = "PREMIUM",
                  "Best for those prioritizing quality over cost"))
    \o When(~segment.artificial_sweeteners,
            "Recommended for those avoiding artificial sweeteners")
    \o When(segment.third_party_tested,
            "Recommended for athletes requiring quality assurance")
    \o (IF segment.avg_rating >= 4500
            THEN <<"Highly recommended based on customer feedback">>
        ELSE When(segment.avg_rating >= 4000, "Recommended for most users"))

\* Remove duplicates while preserving order.
RECURSIVE Unique(_, _)
Unique(items, seen) ==
    IF items = <<>> THEN <<>>
    ELSE IF Head(items) \in seen THEN Unique(Tail(items), seen)
    ELSE <<Head(items)>> \o Unique(Tail(items), seen \cup {Head(items)})

\* _identify_target_audience, lines 261-282: the audience list as the rules
\* extend it, before duplicates are removed.
audience(segment) ==
    (IF segment.quality_category = "PREMIUM"
         THEN <<"Serious athletes", "Professional bodybuilders", "Fitness enthusiasts">>
     ELSE IF segment.quality_category = "STANDARD"
         THEN <<"Regular gym-goers", "Fitness enthusiasts", "Health-conscious individuals">>
     ELSE <<"Beginners", "Casual users", "Budget-conscious consumers">>)
    \o (IF segment.price_category = "BUDGET" THEN <<"Budget-conscious consumers">>
        ELSE When(segment.price_category = "PREMIUM", "Premium market consumers"))
    \o When(~segment.artificial_sweeteners, "Health-conscious individuals")
    \o When(segment.third_party_tested, "Competitive athletes")

\* A target audience returned as the rules built it, duplicates and all.
_identify_target_audience_with_duplicates(segment) == audience(segment)

_identify_target_audience(segment) == Unique(audience(segment), {})

generate_brand_insight(segment, sentiment_data) ==
    [brand |-> segment.brand,
     summary |-> _generate_summary(segment),
     strengths |-> _identify_strengths(segment),
     weaknesses |-> _identify_weaknesses(segment),
     recommendations |-> _generate_recommendations(segment),
     key_features |-> segment.features,
     target_audience |-> _identify_target_audience(segment)]

\* The catalog if _identify_strengths built its list in the segment's own
\* features list (strengths = segment.features) instead of a fresh one: the
\* phrases land in the catalog entry.
CatalogAfterInsightAliased(segment) ==
    IF segment.brand \in DOMAIN brand_data
    THEN [brand_data EXCEPT ![segment.brand].features = _identify_strengths(segment)]
    ELSE brand_data

\* The catalog once generate_brand_insight has returned.  A segment's features
\* list is the catalog's own list object (segment_brand hands it over without
\* copying); generate_brand_insight copies it into key_features and extends a
\* fresh strengths list with it, so the catalog's list is left as it was.
CatalogAfterInsight(segment) == brand_data

\* A ranking key that puts an unknown price first: x.price_per_serving or 0.
PriceKeyUnknownFirst(segment) ==
    IF segment.price_per_serving = None THEN 0 ELSE segment.price_per_serving[1]

\* lambda x: x.price_per_serving or float('inf'): a price of 0.0 is falsy and
\* ranked like an unknown one.
PriceKey(segment) ==
    IF segment.price_per_serving = None \/ segment.price_per_serving[1] = 0 THEN Inf
    ELSE segment.price_per_serving[1]

\* min(segments, key=PriceKey): the first segment of minimal key.
MinByPrice(segments) ==
    segments[CHOOSE k \in 1..Len(segments) :
                 /\ \A j \in 1..Len(segments) : PriceKey(segments[k]) <= PriceKey(segments[j])
                 /\ \A j \in 1..(k - 1) : PriceKey(segments[j]) # PriceKey(segments[k])]

\* A maximum that keeps the last segment of maximal rating.
MaxByRatingLast(segments) ==
    segments[CHOOSE k \in 1..Len(segments) :
                 /\ \A j \in 1..Len(segments) : segments[j].avg_rating <= segments[k].avg_rating
                 /\ \A j \in (k + 1)..Len(segments) : segments[j].avg_rating # segments[k].avg_rating]

\* max(segments, key=lambda x: x.avg_rating): the first segment of maximal rating.
MaxByRating(segments) ==
    segments[CHOOSE k \in 1..Len(segments) :
                 /\ \A j \in 1..Len(segments) : segments[j].avg_rating <= segments[k].avg_rating
                 /\ \A j \in 1..(k - 1) : segments[j].avg_rating # segments[k].avg_rating]

RECURSIVE Filter(_, _)
\* [s for s in segments if s.quality_category in categories]
Filter(segments, categories) ==
    IF segments = <<>> THEN <<>>
    ELSE (IF Head(segments).quality_category \in categories THEN <<Head(segments)>> ELSE <<>>)
         \o Filter(Tail(segments), categories)

RECURSIVE BrandsWhere(_, _, _)
\* [s.brand for s in segments if s.<field> == value]
BrandsWhere(segments, field, value) ==
    IF segments = <<>> THEN <<>>
    ELSE (IF Head(segments)[field] = value THEN <<Head(segments).brand>> ELSE <<>>)
         \o BrandsWhere(Tail(segments), field, value)

\* ", ".join(brands)
RECURSIVE JoinComma(_)
JoinComma(names) ==
    IF names = <<>> THEN <<>>
    ELSE IF Len(names) = 1 THEN names
    ELSE <<Head(names), ",">> \o JoinComma(Tail(names))

_generate_comparison_summary(insights) ==
    JoinWithPeriod(
        (IF insights.best_value # None
            THEN <<"For best value, consider", insights.best_value[1].brand>> ELSE <<>>)
        \o (IF insights.highest_quality # None
            THEN <<"For highest quality,", insights.highest_quality[1].brand, "leads the pack">>
            ELSE <<>>)
        \o (IF insights.most_affordable # None
            THEN <<insights.most_affordable[1].brand, "is the most affordable option">>
            ELSE <<>>)
        \o (IF insights.premium_choice # None
            THEN <<"For premium quality,", insights.premium_choice[1].brand, "is the top choice">>
            ELSE <<>>)
        \o (IF insights.clean_ingredients # <<>>
            THEN <<"Brands with clean ingredients:">> \o JoinComma(insights.clean_ingredients)
            ELSE <<>>)
        \o (IF insights.third_party_tested # <<>>
            THEN <<"Third-party tested brands:">> \o JoinComma(insights.third_party_tested)
            ELSE <<>>))

\* A comparison without the early return for no segments, whose summary is
\* assembled all the same: "" + ".".
generate_comparative_insights_summarising_nothing(segments) ==
    LET empty == [best_value |-> None, highest_quality |-> None,
                  most_affordable |-> None, premium_choice |-> None,
                  clean_ingredients |-> <<>>, third_party_tested |-> <<>>,
                  comparison_summary |-> <<>>]
        high_quality == Filter(segments, {"STANDARD", "PREMIUM"})
        premium_brands == Filter(segments, {"PREMIUM"})
        insights ==
            IF segments = <<>> THEN empty
            ELSE [best_value |->
                      IF high_quality # <<>> THEN Some(MinByPrice(high_quality)) ELSE None,
                  highest_quality |-> Some(MaxByRating(segments)),
                  most_affordable |-> Some(MinByPrice(segments)),
                  premium_choice |->
                      IF premium_brands # <<>> THEN Some(MaxByRating(premium_brands)) ELSE None,
                  clean_ingredients |-> BrandsWhere(segments, "artificial_sweeteners", FALSE),
                  third_party_tested |-> BrandsWhere(segments, "third_party_tested", TRUE),
                  comparison_summary |-> <<>>]
    IN  [insights EXCEPT !.comparison_summary = _generate_comparison_summary(insights)]

generate_comparative_insights(segments) ==
    LET empty == [best_value |-> None, highest_quality |-> None,
                  most_affordable |-> None, premium_choice |-> None,
                  clean_ingredients |-> <<>>, third_party_tested |-> <<>>,
                  comparison_summary |-> <<>>]
        high_quality == Filter(segments, {"STANDARD", "PREMIUM"})
        premium_brands == Filter(segments, {"PREMIUM"})
        insights ==
            [best_value |->
                 IF high_quality # <<>> THEN Some(MinByPrice(high_quality)) ELSE None,
             highest_quality |-> Some(MaxByRating(segments)),
             most_affordable |-> Some(MinByPrice(segments)),
             premium_choice |->
                 IF premium_brands # <<>> THEN Some(MaxByRating(premium_brands)) ELSE None,
             clean_ingredients |-> BrandsWhere(segments, "artificial_sweeteners", FALSE),
             third_party_tested |-> BrandsWhere(segments, "third_party_tested", TRUE),
             comparison_summary |-> <<>>]
    IN  IF segments = <<>> THEN empty
        ELSE [insights EXCEPT !.comparison_summary = _generate_comparison_summary(insights)]

\* --------------------------------------------------- brand_extractor.py

\* The names a discovery response can hold, in the order sorted() gives them
\* (by code point: the empty string first, upper case before lower case).
NameOrder == <<"", "Accent", "Isopure", "Kirkland", "kirkland">>
BrandNames == {NameOrder[k] : k \in 1..Len(NameOrder)}

RECURSIVE SortedFrom(_, _)
\* The names of `order` that are in `names`, in that order.
SortedFrom(order, names) ==
    IF order = <<>> THEN <<>>
    ELSE (IF Head(order) \in names THEN <<Head(order)>> ELSE <<>>)
         \o SortedFrom(Tail(order), names)

\* sorted(set(brands))
SortedSet(items) == SortedFrom(NameOrder, {items[k] : k \in 1..Len(items)})

\* What the language model answered: text that is no JSON; a JSON number (or
\* null, or a boolean); a JSON object, of at most one key here; an array that
\* holds an array; an array of numbers ([7], the number written here by its
\* digits); or a JSON array of names.
Responses ==
    {[kind |-> "invalid_json", items |-> <<>>],
     [kind |-> "number", items |-> <<>>],
     [kind |-> "nested_array", items |-> <<>>],
     [kind |-> "array_of_numbers", items |-> <<"7">>],
     [kind |-> "object", items |-> <<>>]}
    \cup {[kind |-> "object", items |-> <<b>>] : b \in BrandNames}
    \cup {[kind |-> "array", items |-> items] :
            items \in UNION {[1..n -> BrandNames] : n \in 0..MaxResponseLen}}

\* get_unique_brands: json.loads, then sorted(set(brands)).  A JSONDecodeError
\* is caught and gives []; nothing else is caught: set() of a number and of an
\* array that holds an array raise a TypeError; set() of an object is the set
\* of its keys; an array of numbers comes back sorted.
get_unique_brands(response) ==
    CASE response.kind = "invalid_json" -> [raised |-> FALSE, value |-> <<>>]
      [] response.kind = "number" -> [raised |-> TRUE, value |-> <<>>]
      [] response.kind = "nested_array" -> [raised |-> TRUE, value |-> <<>>]
      [] response.kind = "array_of_numbers" -> [raised |-> FALSE, value |-> response.items]
      [] response.kind = "object" -> [raised |-> FALSE, value |-> SortedSet(response.items)]
      [] response.kind = "array" -> [raised |-> FALSE, value |-> SortedSet(response.items)]

\* known_brands.update(brands)
add_known_brands(known, names) == known \cup {names[k] : k \in 1..Len(names)}

\* The members of known_brands that are numbers, written by their digits.
Numbers == {"7"}

\* _build_brand_patterns raises a TypeError: re.escape of a member of
\* known_brands that is no string.
PatternsRaise(known) == known \cap Numbers # {}

\* -------------------------------------------------- sentiment_analyzer.py

\* The pieces re.split(r'[.!?]+', text) cuts a transcript into: the empty
\* transcript is one empty piece, so there is always at least one.
SampleProfiles ==
    { [pos |-> 0, neg |-> 0, neu |-> 0],
      [pos |-> 1, neg |-> 0, neu |-> 0],
      [pos |-> 1, neg |-> 0, neu |-> 4],
      [pos |-> 0, neg |-> 1, neu |-> 1] }

Pieces ==
    {Text(m, k.pos, k.neg, k.neu) : m \in SUBSET MentionNames, k \in SampleProfiles}

Transcripts == UNION {[1..n -> Pieces] : n \in 1..MaxSentences}

RECURSIVE Mentioning(_, _)
\* [sentence.strip() for sentence in sentences if brand_normalized in sentence.lower()]
Mentioning(sentences, brand_normalized) ==
    IF sentences = <<>> THEN <<>>
    ELSE (IF brand_normalized = "" \/ brand_normalized \in Head(sentences).mentions
              THEN <<Head(sentences)>> ELSE <<>>)
         \o Mentioning(Tail(sentences), brand_normalized)

extract_statements_about_brand(text, brand) == Mentioning(text, Lower(brand))

\* The same function on a transcript spelled out: a text and a brand name are
\* sequences of characters, of this alphabet of two letters in both cases,
\* the blank and two of the sentence delimiters.
Alphabet == {"a", "A", "k", "K", " ", ".", "!"}

CharTexts == UNION {[1..n -> Alphabet] : n \in 0..MaxChars}

\* The brand names asked for: plain, upper case, padded with blanks, of two
\* letters, and all blank.
CharBrands ==
    {<<"a">>, <<"K">>, <<" ", "A">>, <<"k", " ">>, <<"a", "k">>, <<"K", "a">>, <<" ">>}

\* str.lower() of one character and of a text.
LowerChar(c) == IF c = "A" THEN "a" ELSE IF c = "K" THEN "k" ELSE c

LowerCase(s) == [k \in 1..Len(s) |-> LowerChar(s[k])]

RECURSIVE lstrip(_)
lstrip(s) == IF s # <<>> /\ Head(s) = " " THEN lstrip(Tail(s)) ELSE s

RECURSIVE rstrip(_)
rstrip(s) == IF s # <<>> /\ s[Len(s)] = " " THEN rstrip(SubSeq(s, 1, Len(s) - 1)) ELSE s

\* str.strip()
strip(s) == rstrip(lstrip(s))

\* needle in hay
In(needle, hay) ==
    \E k \in 0..(Len(hay) - Len(needle)) : SubSeq(hay, k + 1, k + Len(needle)) = needle

RECURSIVE SplitFrom(_, _, _)
\* re.split(r'[.!?]+', text), read from the left: `piece` is the sentence
\* read so far, `in_run` whether the last character was a delimiter.
SplitFrom(rest, piece, in_run) ==
    IF rest = <<>> THEN <<piece>>
    ELSE IF Head(rest) \in {".", "!", "?"}
    THEN (IF in_run THEN <<>> ELSE <<piece>>) \o SplitFrom(Tail(rest), <<>>, TRUE)
    ELSE SplitFrom(Tail(rest), Append(piece, Head(rest)), FALSE)

re_split(text) == SplitFrom(text, <<>>, FALSE)

RECURSIVE StatementsCaseSensitive(_, _)
\* A search that lower-cases the brand name and not the sentence.
StatementsCaseSensitive(sentences, brand_normalized) ==
    IF sentences = <<>> THEN <<>>
    ELSE (IF In(brand_normalized, strip(Head(sentences)))
              THEN <<strip(Head(sentences))>> ELSE <<>>)
         \o StatementsCaseSensitive(Tail(sentences), brand_normalized)

RECURSIVE Statements(_, _)
\* extract_statements_about_brand, lines 131-134: the loop over the sentences.
Statements(sentences, brand_normalized) ==
    IF sentences = <<>> THEN <<>>
    ELSE (IF In(brand_normalized, strip(LowerCase(Head(sentences))))
              THEN <<strip(Head(sentences))>> ELSE <<>>)
         \o Statements(Tail(sentences), brand_normalized)

\* extract_statements_about_brand on a spelled-out transcript and brand name.
extract_statements_spelled(text, brand) ==
    Statements(re_split(text), strip(LowerCase(brand)))

\* --------------------------------------------------- analysis_engine.py

AnalysisResult(bs, ratings, sentiments, segments, insights, comparative, roll_up) ==
    [brands |-> bs, brand_ratings |-> ratings, brand_sentiments |-> sentiments,
     brand_segments |-> segments, brand_insights |-> insights,
     comparative_insights |-> comparative, summary |-> roll_up]

\* {}: the empty dict.
EmptyDict == <<>>

\* An early return that still runs the comparative and the summary step, on
\* nothing.
EarlyResultWithSummary ==
    AnalysisResult(<<>>, <<>>, <<>>, <<>>, <<>>,
                   generate_comparative_insights(<<>>), [error |-> "No brand ratings available"])

\* AnalysisResult([], [], [], [], [], {}, {}): what the run returns when no
\* brand was discovered.
EarlyResult == AnalysisResult(<<>>, <<>>, <<>>, <<>>, <<>>, EmptyDict, EmptyDict)

\* The BrandSentiment the run gives a brand without statements.
neutral_sentiment(brand) ==
    BrandSentiment(brand, <<>>, Frac(1, 2), Frac(3, 1), 0, 0, 0)

\* The rating row the run gives a brand without statements.
neutral_rating(brand) ==
    [brand |-> brand, avg_rating |-> 3000, avg_score |-> 500,
     total_statements |-> 0, positive_percentage |-> 0,
     negative_percentage |-> 0, neutral_percentage |-> 0, statements |-> <<>>]

\* One pass of the per-brand loop: what it appends to brand_sentiments and
\* brand_ratings.
ProcessedSentiment(transcript, brand) ==
    LET statements == extract_statements_about_brand(transcript, brand)
    IN  IF statements = <<>> THEN neutral_sentiment(brand)
        ELSE analyze_brand_statements(brand, statements)

\* A per-brand pass without the "no statements" branch: the row of the empty
\* aggregate, all zero.
ProcessedRatingUnguarded(transcript, brand) ==
    create_rating_summary(
        analyze_brand_statements(brand, extract_statements_about_brand(transcript, brand)))

ProcessedRating(transcript, brand) ==
    LET statements == extract_statements_about_brand(transcript, brand)
    IN  IF statements = <<>> THEN neutral_rating(brand)
        ELSE create_rating_summary(analyze_brand_statements(brand, statements))

\* A lookup by the lower-cased brand name: s.brand == brand.lower().
FindSentimentLowerCased(sentiments, brand) ==
    IF \E k \in 1..Len(sentiments) : sentiments[k].brand = Lower(brand)
    THEN Some(sentiments[CHOOSE k \in 1..Len(sentiments) :
                  /\ sentiments[k].brand = Lower(brand)
                  /\ \A j \in 1..(k - 1) : sentiments[j].brand # Lower(brand)])
    ELSE None

\* next((s for s in brand_sentiments if s.brand == brand), None)
FindSentiment(sentiments, brand) ==
    IF \E k \in 1..Len(sentiments) : sentiments[k].brand = brand
    THEN Some(sentiments[CHOOSE k \in 1..Len(sentiments) :
                  /\ sentiments[k].brand = brand
                  /\ \A j \in 1..(k - 1) : sentiments[j].brand # brand])
    ELSE None

\* max(brand_ratings, key=lambda x: x["avg_rating"]) and min(...): the first one.
HighestRated(rows) ==
    rows[CHOOSE k \in 1..Len(rows) :
             /\ \A j \in 1..Len(rows) : rows[j].avg_rating <= rows[k].avg_rating
             /\ \A j \in 1..(k - 1) : rows[j].avg_rating # rows[k].avg_rating]

LowestRated(rows) ==
    rows[CHOOSE k \in 1..Len(rows) :
             /\ \A j \in 1..Len(rows) : rows[j].avg_rating >= rows[k].avg_rating
             /\ \A j \in 1..(k - 1) : rows[j].avg_rating # rows[k].avg_rating]

\* len([s for s in segments if s.<field> in categories])
CountCategory(segments, field, categories) ==
    Cardinality({k \in 1..Len(segments) : segments[k][field] \in categories})

\* round(sum/n, 2) of n rating-row averages, in thousandths.  The mean of two
\* rows can fall on a decimal tie x.xx5 that no double holds: the double of the
\* quotient lies above the tie when the sum ends in .33 or .83 and below it
\* when it ends in .17 or .67 (the sums two averages of at most three star
\* ratings can have), and round() follows the double.
RoundMean(total, n) ==
    LET hundredths == total \div 10
        q == hundredths \div n
        r == hundredths % n
    IN  10 * (IF 2 * r < n THEN q
              ELSE IF 2 * r > n THEN q + 1
              ELSE IF hundredths % 50 = 33 THEN q + 1
              ELSE IF hundredths % 50 = 17 THEN q
              ELSE IF q % 2 = 0 THEN q ELSE q + 1)

_create_analysis_summary(bs, ratings, segments) ==
    LET total_brands == Len(bs)
        budget_brands == CountCategory(segments, "price_category", {"BUDGET"})
        premium_brands == CountCategory(segments, "price_category", {"PREMIUM"})
        high_quality_brands ==
            CountCategory(segments, "quality_category", {"STANDARD", "PREMIUM"})
    IN  IF ratings = <<>> THEN [error |-> "No brand ratings available"]
        ELSE [total_brands_analyzed |-> total_brands,
              average_rating |->
                  RoundMean(SumSeq([k \in 1..Len(ratings) |-> ratings[k].avg_rating]),
                            Len(ratings)),
              highest_rated_brand |->
                  [brand |-> HighestRated(ratings).brand,
                   rating |-> HighestRated(ratings).avg_rating],
              lowest_rated_brand |->
                  [brand |-> LowestRated(ratings).brand,
                   rating |-> LowestRated(ratings).avg_rating],
              price_distribution |->
                  [budget_brands |-> budget_brands,
                   premium_brands |-> premium_brands,
                   mid_range_brands |-> total_brands - budget_brands - premium_brands],
              quality_distribution |->
                  [high_quality_brands |-> high_quality_brands,
                   basic_quality_brands |-> total_brands - high_quality_brands],
              analysis_timestamp |-> "2024-01-01T00:00:00Z"]

\* save_analysis_results, lines 123-130: the sentiment row of a BrandSentiment.
SentimentRow(sentiment) ==
    [brand |-> sentiment.brand,
     statements |->
         [k \in 1..Len(sentiment.statements) |->
             [text |-> sentiment.statements[k].text,
              label |-> sentiment.statements[k].label,
              score |-> sentiment.statements[k].score]]]

\* save_analysis_results, lines 136-144: the row of a BrandInsight.
InsightRow(insight) ==
    [brand |-> insight.brand, summary |-> insight.summary,
     strengths |-> insight.strengths, weaknesses |-> insight.weaknesses,
     recommendations |-> insight.recommendations,
     key_features |-> insight.key_features,
     target_audience |-> insight.target_audience]

\* analyze_transcript, lines 130-140: the entry of a BrandInsight in the answer.
ResponseInsight(insight) ==
    [brand |-> insight.brand, summary |-> insight.summary,
     strengths |-> insight.strengths, weaknesses |-> insight.weaknesses,
     recommendations |-> insight.recommendations,
     target_audience |-> insight.target_audience]

\* The four fields of a comparative insight that hold a segment or None.
BestOf == {"best_value", "highest_quality", "most_affordable", "premium_choice"}

\* json.dump takes a comparative insight dict only when none of its best-of
\* fields holds a BrandSegment: a dataclass object is not JSON serializable.
JsonSerializable(comparative) ==
    comparative = EmptyDict \/ \A f \in BestOf : comparative[f] = None

\* ------------------------------------------------------------- the calls

\* The calls a client makes, one per behaviour.
RunCalls == {[op |-> "run_full_analysis", transcript |-> t] : t \in Transcripts}

StatementCalls ==
    {[op |-> "analyze_statement", text |-> Text({}, k.pos, k.neg, k.neu)] :
        k \in KeywordProfiles}

BrandStatementsCalls ==
    {[op |-> "analyze_brand_statements", brand |-> "Accent", statements |-> st] :
        st \in UNION {[1..n -> {Text({"accent"}, k.pos, k.neg, k.neu) : k \in SampleProfiles}] :
                        n \in 0..MaxStatements}}

PriceCalls ==
    {[op |-> "_categorize_price", price_per_serving |-> p] :
        p \in {None} \cup {Some(v) : v \in 0..MaxPriceMilli}}

QualityCalls ==
    {[op |-> "_categorize_quality", avg_rating |-> r] : r \in 0..MaxRatingMilli}

SegmentCalls ==
    {[op |-> "segment_brand", brand |-> b, avg_rating |-> r] :
        b \in BrandNames, r \in 0..MaxRatingMilli}

\* The brands segments are built for: the catalog's and an unknown one.
SegmentBrands == CatalogBrands \cup {"kirkland"}

\* Ratings on both sides of the quality bands.
SampleRatings == {3000, 4000, 4500, 4600, 4800}

\* The segments segment_brand builds.
SampleSegments == {segment_brand(b, r) : b \in SegmentBrands, r \in SampleRatings}

CompareCalls ==
    {[op |-> "generate_comparative_insights", segments |-> sg] :
        sg \in UNION {[1..n -> SampleSegments] : n \in 0..MaxSegments}}

\* create_rating_summary of what analyze_brand_statements returns and of the
\* BrandSentiment the run gives a brand without statements.
RatingSummaryCalls ==
    {[op |-> "create_rating_summary", brand_sentiment |-> neutral_sentiment(b)] :
        b \in BrandNames}
    \cup {[op |-> "create_rating_summary",
           brand_sentiment |-> analyze_brand_statements(c.brand, c.statements)] :
            c \in BrandStatementsCalls}

ExtractCalls ==
    {[op |-> "extract_statements_about_brand", text |-> t, brand |-> b] :
        t \in CharTexts, b \in CharBrands}

InsightCalls ==
    {[op |-> "generate_brand_insight", segment |-> segment_brand(b, r)] :
        b \in SegmentBrands, r \in 0..MaxRatingMilli}

Calls ==
    RunCalls \cup StatementCalls \cup BrandStatementsCalls \cup PriceCalls
    \cup QualityCalls \cup SegmentCalls \cup CompareCalls \cup InsightCalls
    \cup ExtractCalls \cup RatingSummaryCalls

\* The six files of save_analysis_results, none written yet.
NoFiles ==
    [brand_ratings |-> None, brand_sentiment_analysis |-> None, brand_segmented |-> None,
     brand_insight_summaries |-> None, comparative_insights |-> None,
     analysis_summary |-> None]

\* The engine as its constructor leaves it, no call made yet.
Fresh ==
    /\ known_brands = {}
    /\ brand_data = InitialBrandData
    /\ price_thresholds = InitialPriceThresholds
    /\ quality_thresholds = InitialQualityThresholds
    /\ pc = "start"
    /\ ret = None
    /\ brands = <<>>
    /\ brand_sentiments = <<>>
    /\ brand_ratings = <<>>
    /\ brand_segments = <<>>
    /\ brand_insights = <<>>
    /\ comparative_insights = EmptyDict
    /\ summary = EmptyDict
    /\ i = 0
    /\ response_kind = None
    /\ saved = NoFiles
    /\ response_data = None
    /\ earlier = None

\* arg \in Calls, one kind of call at a time.
Init ==
    /\ Fresh
    /\ \/ arg \in RunCalls
       \/ arg \in StatementCalls
       \/ arg \in BrandStatementsCalls
       \/ arg \in PriceCalls
       \/ arg \in QualityCalls
       \/ arg \in SegmentCalls
       \/ arg \in CompareCalls
       \/ arg \in InsightCalls
       \/ arg \in ExtractCalls
       \/ arg \in RatingSummaryCalls

\* A run_full_analysis call on a fresh engine.
RunInit == Fresh /\ arg \in RunCalls

\* A direct call of one of the pure functions returns its value.
Return(value) ==
    /\ pc = "start"
    /\ pc' = "done"
    /\ ret' = Some(value)
    /\ UNCHANGED <<arg, engine_vars, run_vars, io_vars>>

CallAnalyzeStatement ==
    /\ arg.op = "analyze_statement"
    /\ Return(analyze_statement(arg.text))

CallAnalyzeBrandStatements ==
    /\ arg.op = "analyze_brand_statements"
    /\ Return(analyze_brand_statements(arg.brand, arg.statements))

CallCategorizePrice ==
    /\ arg.op = "_categorize_price"
    /\ Return(_categorize_price(arg.price_per_serving))

CallCategorizeQuality ==
    /\ arg.op = "_categorize_quality"
    /\ Return(_categorize_quality(arg.avg_rating))

CallSegmentBrand ==
    /\ arg.op = "segment_brand"
    /\ Return(segment_brand(arg.brand, arg.avg_rating))

CallGenerateComparativeInsights ==
    /\ arg.op = "generate_comparative_insights"
    /\ Return(generate_comparative_insights(arg.segments))

CallCreateRatingSummary ==
    /\ arg.op = "create_rating_summary"
    /\ Return(create_rating_summary(arg.brand_sentiment))

CallExtractStatements ==
    /\ arg.op = "extract_statements_about_brand"
    /\ Return(extract_statements_spelled(arg.text, arg.brand))

CallGenerateBrandInsight ==
    /\ arg.op = "generate_brand_insight"
    /\ pc = "start"
    /\ pc' = "done"
    /\ ret' = Some(generate_brand_insight(arg.segment, None))
    /\ brand_data' = CatalogAfterInsight(arg.segment)
    /\ UNCHANGED <<arg, known_brands, price_thresholds, quality_thresholds, run_vars, io_vars>>

\* The language model answers the second of two runs as it answered the
\* first: a response of the same kind that holds the same names.
SameResponse(response) ==
    /\ Some(response.kind) = earlier[1].response_kind
    /\ get_unique_brands(response).value = earlier[1].result.brands

\* run_full_analysis, lines 35-41: discover the brands, the language model
\* answering with any response; none ends the run with an empty result, a
\* TypeError of the discovery leaves it.  add_known_brands first updates
\* known_brands and then rebuilds the patterns, where a member that is a
\* number raises a TypeError (re.escape in _build_brand_patterns): the run is
\* left, and the number stays in known_brands.
Discover ==
    /\ arg.op = "run_full_analysis"
    /\ pc = "start"
    /\ \E response \in Responses :
       LET found == get_unique_brands(response)
       IN  /\ earlier # None => SameResponse(response)
           /\ response_kind' = Some(response.kind)
           /\ IF found.raised
              THEN /\ pc' = "raised"
                   /\ UNCHANGED <<ret, known_brands, brands, i>>
              ELSE IF found.value = <<>>
              THEN /\ pc' = "done"
                   /\ ret' = Some(EarlyResult)
                   /\ UNCHANGED <<known_brands, brands, i>>
              ELSE IF PatternsRaise(add_known_brands(known_brands, found.value))
              THEN /\ pc' = "raised"
                   /\ known_brands' = add_known_brands(known_brands, found.value)
                   /\ UNCHANGED <<ret, brands, i>>
              ELSE /\ pc' = "brands"
                   /\ brands' = found.value
                   /\ known_brands' = add_known_brands(known_brands, found.value)
                   /\ i' = 1
                   /\ ret' = ret
    /\ UNCHANGED <<arg, brand_data, price_thresholds, quality_thresholds, saved, response_data, earlier>>
    /\ UNCHANGED <<brand_sentiments, brand_ratings, brand_segments, brand_insights, comparative_insights, summary>>

\* A per-brand loop that is left after its first pass, whatever brands remain.
ProcessBrandFirstOnly ==
    /\ pc = "brands"
    /\ i <= Len(brands)
    /\ brand_sentiments' = Append(brand_sentiments, ProcessedSentiment(arg.transcript, brands[i]))
    /\ brand_ratings' = Append(brand_ratings, ProcessedRating(arg.transcript, brands[i]))
    /\ pc' = "segment"
    /\ i' = 1
    /\ ret' = ret
    /\ UNCHANGED <<arg, engine_vars, io_vars, brands, brand_segments, brand_insights, comparative_insights, summary>>

\* run_full_analysis, lines 46-81: one pass of the per-brand loop; after the
\* last brand, the return for "no rating rows".
ProcessBrand ==
    /\ pc = "brands"
    /\ i <= Len(brands)
    /\ brand_sentiments' = Append(brand_sentiments, ProcessedSentiment(arg.transcript, brands[i]))
    /\ brand_ratings' = Append(brand_ratings, ProcessedRating(arg.transcript, brands[i]))
    /\ IF i < Len(brands)
       THEN /\ i' = i + 1
            /\ UNCHANGED <<pc, ret>>
       ELSE IF brand_ratings' = <<>>
       THEN /\ pc' = "done"
            /\ ret' = Some(AnalysisResult(brands, brand_ratings', brand_sentiments', <<>>, <<>>, EmptyDict, EmptyDict))
            /\ i' = i
       ELSE /\ pc' = "segment"
            /\ i' = 1
            /\ ret' = ret
    /\ UNCHANGED <<arg, engine_vars, io_vars, brands, brand_segments, brand_insights, comparative_insights, summary>>

\* run_full_analysis, line 83: segment_all_brands, one rating row per step.
SegmentRow ==
    /\ pc = "segment"
    /\ i <= Len(brand_ratings)
    /\ brand_segments' = SegmentsAfterRow(brand_segments, brand_ratings[i])
    /\ IF i < Len(brand_ratings)
       THEN /\ i' = i + 1
            /\ pc' = pc
       ELSE /\ i' = 1
            /\ pc' = IF brand_segments' = <<>> THEN "comparative" ELSE "insight"
    /\ UNCHANGED <<arg, ret, engine_vars, io_vars, brands, brand_sentiments, brand_ratings, brand_insights, comparative_insights, summary>>

\* run_full_analysis, lines 85-97: one pass of the insight loop.
InsightFor ==
    /\ pc = "insight"
    /\ i <= Len(brand_segments)
    /\ LET segment == brand_segments[i]
           sentiment_data == FindSentiment(brand_sentiments, segment.brand)
       IN  /\ brand_insights' =
                  IF sentiment_data = None THEN brand_insights
                  ELSE Append(brand_insights, generate_brand_insight(segment, sentiment_data[1]))
           /\ brand_data' =
                  IF sentiment_data = None THEN brand_data ELSE CatalogAfterInsight(segment)
    /\ IF i < Len(brand_segments)
       THEN /\ i' = i + 1
            /\ pc' = pc
       ELSE /\ i' = i
            /\ pc' = "comparative"
    /\ UNCHANGED <<arg, ret, known_brands, price_thresholds, quality_thresholds, io_vars>>
    /\ UNCHANGED <<brands, brand_sentiments, brand_ratings, brand_segments, comparative_insights, summary>>

\* run_full_analysis, line 99.
Compare ==
    /\ pc = "comparative"
    /\ comparative_insights' = generate_comparative_insights(brand_segments)
    /\ pc' = "summary"
    /\ UNCHANGED <<arg, ret, engine_vars, io_vars, brands, brand_sentiments, brand_ratings, brand_segments, brand_insights, summary, i>>

\* run_full_analysis, lines 100-111: the roll-up summary and the result.
Summarize ==
    /\ pc = "summary"
    /\ summary' = _create_analysis_summary(brands, brand_ratings, brand_segments)
    /\ ret' = Some(AnalysisResult(brands, brand_ratings, brand_sentiments, brand_segments, brand_insights, comparative_insights, summary'))
    /\ pc' = "done"
    /\ UNCHANGED <<arg, engine_vars, io_vars, brands, brand_sentiments, brand_ratings, brand_segments, brand_insights, comparative_insights, i>>

\* save_analysis_results on the result of the run: the six files in turn.
\* json.dump of comparative_insights raises a TypeError at the first
\* BrandSegment, which leaves that file cut off and the summary unwritten.
SaveAnalysisResults ==
    /\ arg.op = "run_full_analysis"
    /\ pc = "done"
    /\ LET result == ret[1]
           written ==
               [NoFiles EXCEPT
                   !.brand_ratings = Some(result.brand_ratings),
                   !.brand_sentiment_analysis =
                       Some([k \in 1..Len(result.brand_sentiments) |->
                                SentimentRow(result.brand_sentiments[k])]),
                   !.brand_segmented = Some(create_segmentation_summary(result.brand_segments)),
                   !.brand_insight_summaries =
                       Some([k \in 1..Len(result.brand_insights) |->
                                InsightRow(result.brand_insights[k])])]
       IN  IF JsonSerializable(result.comparative_insights)
           THEN /\ saved' = [written EXCEPT
                                !.comparative_insights = Some(result.comparative_insights),
                                !.analysis_summary = Some(result.summary)]
                /\ pc' = "saved"
           ELSE /\ saved' = [written EXCEPT !.comparative_insights = Some([cut_off |-> TRUE])]
                /\ pc' = "save_raised"
    /\ UNCHANGED <<arg, ret, engine_vars, run_vars, response_kind, response_data, earlier>>

\* The /analyze endpoint answering, after the run (save_results false) or
\* after the run and the save: the data of its response.  A failed run or
\* save is answered with an HTTP 500 and no data.
AnalyzeTranscript ==
    /\ arg.op = "run_full_analysis"
    /\ pc \in {"done", "saved"}
    /\ LET result == ret[1]
       IN  response_data' =
               Some([brands |-> result.brands,
                     summary |-> result.summary,
                     comparative_insights |-> result.comparative_insights,
                     brand_insights |->
                         [k \in 1..Len(result.brand_insights) |->
                             ResponseInsight(result.brand_insights[k])]])
    /\ pc' = "responded"
    /\ UNCHANGED <<arg, ret, engine_vars, run_vars, response_kind, saved, earlier>>

\* The brands that runs between the first and the second run of a
\* transcript can have added to known_brands: none, a name, two names, or
\* the number of a response [7], whose run add_known_brands left.
BrandsOfOtherRuns == {{}, {"Isopure"}, {"", "kirkland"}, {"7"}}

\* run_full_analysis called again on the same engine with the same
\* transcript, after the first run returned and perhaps other runs in
\* between, of which the engine keeps the brands they discovered
\* (add_known_brands) and nothing else.
RunAgain ==
    /\ arg.op = "run_full_analysis"
    /\ pc = "done"
    /\ earlier = None
    /\ Len(arg.transcript) <= MaxRerunSentences
    /\ earlier' = Some([result |-> ret[1], known_brands |-> known_brands,
                         response_kind |-> response_kind])
    /\ response_kind' = None
    /\ \E others \in BrandsOfOtherRuns : known_brands' = known_brands \cup others
    /\ pc' = "start"
    /\ ret' = None
    /\ brands' = <<>>
    /\ brand_sentiments' = <<>>
    /\ brand_ratings' = <<>>
    /\ brand_segments' = <<>>
    /\ brand_insights' = <<>>
    /\ comparative_insights' = EmptyDict
    /\ summary' = EmptyDict
    /\ i' = 0
    /\ UNCHANGED <<arg, brand_data, price_thresholds, quality_thresholds, saved, response_data>>

Next ==
    \/ CallAnalyzeStatement
    \/ CallAnalyzeBrandStatements
    \/ CallCategorizePrice
    \/ CallCategorizeQuality
    \/ CallSegmentBrand
    \/ CallGenerateComparativeInsights
    \/ CallGenerateBrandInsight
    \/ CallExtractStatements
    \/ CallCreateRatingSummary
    \/ Discover
    \/ ProcessBrand
    \/ SegmentRow
    \/ InsightFor
    \/ Compare
    \/ Summarize
    \/ SaveAnalysisResults
    \/ AnalyzeTranscript
    \/ RunAgain

Spec == Init /\ [][Next]_vars

\* The statements of run_full_analysis, which Python executes one after the
\* other until the function returns or raises.
RunStep ==
    \/ Discover
    \/ ProcessBrand
    \/ SegmentRow
    \/ InsightFor
    \/ Compare
    \/ Summarize

\* What a client does with a result: save it, answer with it, run again.
RunNext ==
    \/ RunStep
    \/ SaveAnalysisResults
    \/ AnalyzeTranscript
    \/ RunAgain

\* The place of a step in the order of a run: discover, per-brand sentiment,
\* segmentation, per-segment insight, comparative insight, roll-up summary,
\* and the end (returned or raised, and what a client does then).
PhaseOf(p) ==
    CASE p = "start" -> 0
      [] p = "brands" -> 1
      [] p = "segment" -> 2
      [] p = "insight" -> 3
      [] p = "comparative" -> 4
      [] p = "summary" -> 5
      [] OTHER -> 6

\* The interpreter at work: run_full_analysis moves on to a later phase, or its
\* loop to the next element.
Advance ==
    /\ PhaseOf(pc) < 6
    /\ pc' \in {"brands", "segment", "insight", "comparative", "summary", "done", "raised"}
    /\ i' \in 0..(i + 1)
    /\ \/ PhaseOf(pc') > PhaseOf(pc)
       \/ pc' = pc /\ i' = i + 1

\* The run calls alone. Python executes the statements of run_full_analysis one
\* after the other until the call returns or raises: a started run does not
\* stop between two statements, so it keeps moving on.
RunSpec == RunInit /\ [][RunNext]_vars /\ WF_<<pc, i>>(Advance)

\* ------------------------------------------------------------ properties

\* The call `op` has returned.
Returned(op) == arg.op = op /\ pc = "done" /\ ret # None

Zero == [num |-> 0, den |-> 1]
One == [num |-> 1, den |-> 1]

\* C1: for every statement text, analyze_statement returns a score in [0, 1]
\* and a rating in {1, ..., 5}.
C1_ScoreAndRatingInRange ==
    Returned("analyze_statement") =>
        /\ FracLe(Zero, ret[1].score)
        /\ FracLe(ret[1].score, One)
        /\ ret[1].rating \in 1..5

\* Both ends of the score range are returned: 0 with 1 star for a text with
\* nothing but negative keywords.
C1_Witness ==
    /\ Returned("analyze_statement")
    /\ arg.text.neg > 0 /\ arg.text.pos = 0 /\ arg.text.neu = 0
    /\ ret[1].score = Zero
    /\ ret[1].rating = 1

\* C3: the label is POSITIVE iff the score is above 0.6, NEGATIVE iff it is
\* below 0.4 and NEUTRAL otherwise, so 0.4 and 0.6 themselves are NEUTRAL; a
\* text without keywords has score 0.5 and is NEUTRAL; a text with keywords
\* has score ((pos - neg) / total + 1) / 2.
C3_LabelBands ==
    Returned("analyze_statement") =>
        LET t == arg.text
            total == t.pos + t.neg + t.neu
            score == ret[1].score
        IN  /\ (ret[1].label = "POSITIVE") <=> (5 * score.num > 3 * score.den)
            /\ (ret[1].label = "NEGATIVE") <=> (5 * score.num < 2 * score.den)
            /\ (ret[1].label = "NEUTRAL") <=>
                   (5 * score.num >= 2 * score.den /\ 5 * score.num <= 3 * score.den)
            /\ total = 0 => score = [num |-> 1, den |-> 2] /\ ret[1].label = "NEUTRAL"
            /\ total > 0 => score.num * 2 * total = (t.pos - t.neg + total) * score.den
            /\ score \in {[num |-> 2, den |-> 5], [num |-> 3, den |-> 5]} =>
                   ret[1].label = "NEUTRAL"

\* A score of exactly 0.6 (one positive keyword among four neutral ones) has
\* been labelled NEUTRAL.
C3_Witness ==
    /\ Returned("analyze_statement")
    /\ arg.text.pos = 1 /\ arg.text.neg = 0 /\ arg.text.neu = 4
    /\ ret[1].score = [num |-> 3, den |-> 5]
    /\ ret[1].label = "NEUTRAL"

\* C4: the star rating is the first band, from the top, that the score
\* reaches: >= 0.8 is 5, else >= 0.6 is 4, else >= 0.4 is 3, else >= 0.2 is 2,
\* else 1; every score of [0, 1] is in exactly one band.
C4_RatingBands ==
    Returned("analyze_statement") =>
        LET score == ret[1].score
            n10 == 10 * score.num
        IN  /\ (ret[1].rating = 5) <=> (n10 >= 8 * score.den)
            /\ (ret[1].rating = 4) <=> (n10 >= 6 * score.den /\ n10 < 8 * score.den)
            /\ (ret[1].rating = 3) <=> (n10 >= 4 * score.den /\ n10 < 6 * score.den)
            /\ (ret[1].rating = 2) <=> (n10 >= 2 * score.den /\ n10 < 4 * score.den)
            /\ (ret[1].rating = 1) <=> (n10 < 2 * score.den)
            /\ ret[1].rating \in 1..5

\* A score of exactly 0.8 (four positive keywords and a negative one) has
\* been given 5 stars.
C4_Witness ==
    /\ Returned("analyze_statement")
    /\ arg.text.pos = 4 /\ arg.text.neg = 1 /\ arg.text.neu = 0
    /\ ret[1].score = [num |-> 4, den |-> 5]
    /\ ret[1].rating = 5

\* C5: a statement with at least 3 positive keywords and no negative keyword
\* is POSITIVE with 4 or 5 stars, whatever number of neutral keywords it has.
C5_ThreePositivesArePositive ==
    (Returned("analyze_statement") /\ arg.text.pos >= 3 /\ arg.text.neg = 0) =>
        /\ ret[1].label = "POSITIVE"
        /\ ret[1].rating \in {4, 5}

\* The hardest case has returned: 3 positive keywords among all 10 neutral ones.
C5_Witness ==
    /\ Returned("analyze_statement")
    /\ arg.text.pos = 3 /\ arg.text.neg = 0
    /\ arg.text.neu = Cardinality(neutral_keywords)
    /\ ret[1].label = "POSITIVE"
    /\ ret[1].rating = 4

\* positive_count + negative_count + neutral_count == len(statements)
CountsAddUp(sentiment) ==
    sentiment.positive_count + sentiment.negative_count + sentiment.neutral_count
        = Len(sentiment.statements)

\* C2: the counts of the BrandSentiment analyze_brand_statements returns add up
\* to the number of statements it was given, and so do the counts of every
\* BrandSentiment a run holds or returns, the zero-statement default included.
C2_CountsAddUp ==
    /\ Returned("analyze_brand_statements") =>
           /\ Len(ret[1].statements) = Len(arg.statements)
           /\ CountsAddUp(ret[1])
    /\ arg.op = "run_full_analysis" =>
           \A k \in 1..Len(brand_sentiments) :
               /\ CountsAddUp(brand_sentiments[k])
               /\ Len(brand_sentiments[k].statements)
                      = Len(extract_statements_about_brand(arg.transcript, brands[k]))
    /\ Returned("run_full_analysis") =>
           \A k \in 1..Len(ret[1].brand_sentiments) : CountsAddUp(ret[1].brand_sentiments[k])

\* A run has returned a brand with a POSITIVE and a NEUTRAL statement (the
\* NEUTRAL one with a score of exactly 0.6) beside a brand without statements.
C2_Witness ==
    /\ Returned("run_full_analysis")
    /\ \E k, j \in 1..Len(ret[1].brand_sentiments) :
           /\ ret[1].brand_sentiments[k].positive_count = 1
           /\ ret[1].brand_sentiments[k].neutral_count = 1
           /\ \E n \in 1..2 : ret[1].brand_sentiments[k].statements[n].score = [num |-> 3, den |-> 5]
           /\ ret[1].brand_sentiments[j].statements = <<>>

\* C6: _categorize_price: a price up to 0.90 is BUDGET, above 0.90 and up to
\* 1.20 MID_RANGE, above 1.20 PREMIUM; an unknown price is MID_RANGE.
C6_PriceBands ==
    Returned("_categorize_price") =>
        LET price == arg.price_per_serving
        IN  /\ price = None => ret[1] = "MID_RANGE"
            /\ price # None =>
                   /\ (ret[1] = "BUDGET") <=> (price[1] <= 900)
                   /\ (ret[1] = "MID_RANGE") <=> (price[1] > 900 /\ price[1] <= 1200)
                   /\ (ret[1] = "PREMIUM") <=> (price[1] > 1200)

\* 0.90 itself has been classified BUDGET.
C6_Witness ==
    /\ Returned("_categorize_price")
    /\ arg.price_per_serving = Some(900)
    /\ ret[1] = "BUDGET"

\* C7: _categorize_quality: a rating up to 4.0 is BASIC, above 4.0 and up to
\* 4.5 STANDARD, above 4.5 PREMIUM; every rating gets exactly one category.
C7_QualityBands ==
    Returned("_categorize_quality") =>
        /\ (ret[1] = "BASIC") <=> (arg.avg_rating <= 4000)
        /\ (ret[1] = "STANDARD") <=> (arg.avg_rating > 4000 /\ arg.avg_rating <= 4500)
        /\ (ret[1] = "PREMIUM") <=> (arg.avg_rating > 4500)
        /\ ret[1] \in {"BASIC", "STANDARD", "PREMIUM"}

\* 4.5 itself has been classified STANDARD.
C7_Witness ==
    /\ Returned("_categorize_quality")
    /\ arg.avg_rating = 4500
    /\ ret[1] = "STANDARD"

\* C8: no operation changes the attribute catalog or the threshold tables, and
\* segment_brand called again with the brand and rating of an earlier call,
\* whatever ran in between, returns the segment the earlier call returned.
C8_SegmentBrandPure ==
    /\ brand_data = InitialBrandData
    /\ price_thresholds = InitialPriceThresholds
    /\ quality_thresholds = InitialQualityThresholds
    /\ \A k \in 1..Len(brand_segments) :
           segment_brand(brand_segments[k].brand, brand_segments[k].avg_rating)
               = brand_segments[k]
    /\ Returned("segment_brand") => segment_brand(arg.brand, arg.avg_rating) = ret[1]
    /\ Returned("run_full_analysis") =>
           \A k \in 1..Len(ret[1].brand_segments) :
               segment_brand(ret[1].brand_segments[k].brand, ret[1].brand_segments[k].avg_rating)
                   = ret[1].brand_segments[k]

\* A run has returned two segments of catalog brands after an insight was
\* generated for each of them.
C8_Witness ==
    /\ Returned("run_full_analysis")
    /\ Len(ret[1].brand_segments) = 2
    /\ Len(ret[1].brand_insights) = 2
    /\ \A k \in 1..2 : ret[1].brand_segments[k].brand \in DOMAIN brand_data

\* C9: for a brand that is no key of the catalog, segment_brand returns a
\* segment with price and protein content unknown, both flags false, no
\* features, price category MID_RANGE and the quality category of the rating.
C9_UnknownBrandDefaults ==
    LET IsDefault(segment) ==
            /\ segment.price_per_serving = None
            /\ segment.protein_content = None
            /\ segment.third_party_tested = FALSE
            /\ segment.artificial_sweeteners = FALSE
            /\ segment.features = <<>>
            /\ segment.price_category = "MID_RANGE"
            /\ segment.quality_category =
                   (IF segment.avg_rating <= 4000 THEN "BASIC"
                    ELSE IF segment.avg_rating <= 4500 THEN "STANDARD"
                    ELSE "PREMIUM")
    IN  /\ (Returned("segment_brand") /\ arg.brand \notin CatalogBrands) =>
               /\ ret[1].brand = arg.brand
               /\ ret[1].avg_rating = arg.avg_rating
               /\ IsDefault(ret[1])
        /\ \A k \in 1..Len(brand_segments) :
               brand_segments[k].brand \notin CatalogBrands => IsDefault(brand_segments[k])

\* segment_brand has returned the segment of the unknown brand "kirkland"
\* rated 4.501: MID_RANGE, PREMIUM quality.
C9_Witness ==
    /\ Returned("segment_brand")
    /\ arg.brand = "kirkland"
    /\ arg.avg_rating = 4501
    /\ ret[1].price_category = "MID_RANGE"
    /\ ret[1].quality_category = "PREMIUM"

\* No piece of the transcript mentions the brand.
NoStatementAbout(transcript, brand) ==
    Lower(brand) # "" /\ \A k \in 1..Len(transcript) : Lower(brand) \notin transcript[k].mentions

\* C10: in a run, a brand without statements gets a BrandSentiment with
\* avg_score 0.5, avg_rating 3.0, zero counts and no statements, and a rating
\* row with avg_rating 3.0, avg_score 0.5, total_statements 0 and percentages
\* 0.0; the run goes on, so the result holds a sentiment and a row per brand.
C10_NeutralDefault ==
    arg.op = "run_full_analysis" =>
        /\ \A k \in 1..Len(brand_sentiments) :
               NoStatementAbout(arg.transcript, brands[k]) =>
                   /\ brand_sentiments[k] =
                          [brand |-> brands[k], statements |-> <<>>,
                           avg_score |-> [num |-> 1, den |-> 2],
                           avg_rating |-> [num |-> 3, den |-> 1],
                           positive_count |-> 0, negative_count |-> 0, neutral_count |-> 0]
                   /\ k <= Len(brand_ratings)
                   /\ brand_ratings[k] =
                          [brand |-> brands[k], avg_rating |-> 3000, avg_score |-> 500,
                           total_statements |-> 0, positive_percentage |-> 0,
                           negative_percentage |-> 0, neutral_percentage |-> 0,
                           statements |-> <<>>]
        /\ (Returned("run_full_analysis") /\ brands # <<>>) =>
               /\ Len(ret[1].brand_sentiments) = Len(brands)
               /\ Len(ret[1].brand_ratings) = Len(brands)
               /\ ret[1].brand_sentiments = brand_sentiments
               /\ ret[1].brand_ratings = brand_ratings

\* A run has returned whose first brand had no statement and whose second
\* brand had one.
C10_Witness ==
    /\ Returned("run_full_analysis")
    /\ Len(brands) = 2
    /\ NoStatementAbout(arg.transcript, brands[1])
    /\ ret[1].brand_ratings[1].total_statements = 0
    /\ ret[1].brand_ratings[1].avg_rating = 3000
    /\ ret[1].brand_ratings[2].total_statements > 0

\* A run_full_analysis whose brand discovery has come back with no brand.
DiscoveredNothing ==
    /\ arg.op = "run_full_analysis"
    /\ response_kind # None
    /\ pc # "raised"
    /\ brands = <<>>

\* C11: when the discovery returns no brand the run returns at once, without
\* error, an AnalysisResult whose seven fields are all empty; no per-brand,
\* segmentation, insight or summary step runs.
C11_NoBrandsEmptyResult ==
    DiscoveredNothing =>
        /\ pc \in {"done", "saved", "save_raised", "responded"}
        /\ ret = Some([brands |-> <<>>, brand_ratings |-> <<>>, brand_sentiments |-> <<>>,
                       brand_segments |-> <<>>, brand_insights |-> <<>>,
                       comparative_insights |-> <<>>, summary |-> <<>>])
        /\ brand_sentiments = <<>> /\ brand_ratings = <<>> /\ brand_segments = <<>>
        /\ brand_insights = <<>> /\ comparative_insights = <<>> /\ summary = <<>>
        /\ earlier = None => known_brands = {}

\* A run has returned the empty result after a discovery that answered with
\* an empty array.
C11_Witness ==
    /\ DiscoveredNothing
    /\ response_kind = Some("array")
    /\ pc = "done"
    /\ ret[1].brands = <<>>
    /\ ret[1].summary = <<>>

\* The responses that are no JSON array of names.
MalformedKinds == {"invalid_json", "number", "nested_array", "array_of_numbers", "object"}

\* C12: every malformed discovery response, undecodable or decoding to
\* something that is no array of names, is treated as an empty brand set: the
\* run does not fail and discovers no brand.
C12_MalformedIsEmpty ==
    (arg.op = "run_full_analysis" /\ response_kind # None /\ response_kind[1] \in MalformedKinds) =>
        /\ pc # "raised"
        /\ brands = <<>>
        /\ ret # None => ret[1].brands = <<>>

\* The place of a name in the order sorted() gives.
PlaceOf(name) == CHOOSE k \in 1..Len(NameOrder) : NameOrder[k] = name

\* C13: the brands of every AnalysisResult are sorted, free of duplicates and
\* unique whatever the case: no two entries are equal once lower-cased.
C13_BrandsSortedCaseInsensitiveUnique ==
    (arg.op = "run_full_analysis" /\ ret # None) =>
        \A j, k \in 1..Len(ret[1].brands) :
            j < k =>
                /\ PlaceOf(ret[1].brands[j]) < PlaceOf(ret[1].brands[k])
                /\ ret[1].brands[j] # ret[1].brands[k]
                /\ Lower(ret[1].brands[j]) # Lower(ret[1].brands[k])

\* C14: in the result of a run that discovered a brand, brand_ratings,
\* brand_sentiments and brand_segments hold one entry per discovered brand, in
\* discovery order, the empty name included.
C14_OneEntryPerBrand ==
    (Returned("run_full_analysis") /\ ret[1].brands # <<>>) =>
        LET n == Len(ret[1].brands)
        IN  /\ Len(ret[1].brand_ratings) = n
            /\ Len(ret[1].brand_sentiments) = n
            /\ Len(ret[1].brand_segments) = n
            /\ \A k \in 1..n :
                   /\ ret[1].brand_ratings[k].brand = ret[1].brands[k]
                   /\ ret[1].brand_sentiments[k].brand = ret[1].brands[k]
                   /\ ret[1].brand_segments[k].brand = ret[1].brands[k]

\* The price a segment is ranked by: an unknown price counts as +infinity.
RankedPrice(segment) ==
    IF segment.price_per_serving = None THEN Inf ELSE segment.price_per_serving[1]

\* best_value and most_affordable of `insights` are what C15 says of `segments`.
BestValueRight(segments, insights) ==
    LET all == 1..Len(segments)
        high == {k \in all : segments[k].quality_category \in {"STANDARD", "PREMIUM"}}
        best_value == insights.best_value
        most_affordable == insights.most_affordable
    IN  /\ (best_value = None) <=> (high = {})
        /\ best_value # None =>
               /\ \E k \in high : segments[k] = best_value[1]
               /\ \A k \in high : RankedPrice(best_value[1]) <= RankedPrice(segments[k])
               /\ RankedPrice(most_affordable[1]) <= RankedPrice(best_value[1])
        /\ most_affordable # None
        /\ \E k \in all : segments[k] = most_affordable[1]
        /\ \A k \in all : RankedPrice(most_affordable[1]) <= RankedPrice(segments[k])

\* The comparative insight of a run has been computed from at least one segment.
RunCompared ==
    /\ arg.op = "run_full_analysis"
    /\ comparative_insights # EmptyDict
    /\ brand_segments # <<>>

\* C15: for a non-empty segment collection, best_value is a segment of
\* STANDARD or PREMIUM quality whose price is minimal among those (unknown
\* price = +infinity), and None exactly when there is none; most_affordable is
\* a segment of minimal price over all, so never dearer than best_value.
C15_BestValueAndMostAffordable ==
    /\ (Returned("generate_comparative_insights") /\ arg.segments # <<>>) =>
           BestValueRight(arg.segments, ret[1])
    /\ RunCompared => BestValueRight(brand_segments, comparative_insights)

\* The comparison of a BASIC segment of the cheapest brand and a STANDARD
\* segment of a dearer one has returned: best value is the dearer one, the most
\* affordable the cheaper.
C15_Witness ==
    /\ Returned("generate_comparative_insights")
    /\ Len(arg.segments) = 2
    /\ arg.segments[1].brand = "Isopure" /\ arg.segments[1].quality_category = "STANDARD"
    /\ arg.segments[2].brand = "My Protein" /\ arg.segments[2].quality_category = "BASIC"
    /\ ret[1].best_value = Some(arg.segments[1])
    /\ ret[1].most_affordable = Some(arg.segments[2])

\* premium_choice of `insights` is what C16 says of `segments`.
PremiumChoiceRight(segments, insights) ==
    LET premium == {k \in 1..Len(segments) : segments[k].quality_category = "PREMIUM"}
        choice == insights.premium_choice
    IN  /\ (choice = None) <=> (premium = {})
        /\ choice # None =>
               /\ choice[1].quality_category = "PREMIUM"
               /\ \E k \in premium :
                      /\ segments[k] = choice[1]
                      /\ \A j \in premium : segments[j].avg_rating <= segments[k].avg_rating
                      /\ \A j \in premium : j < k => segments[j].avg_rating < segments[k].avg_rating

\* C16: for a non-empty segment collection, premium_choice is the first
\* segment of maximal rating among those of PREMIUM quality and None exactly
\* when there is none; a STANDARD or BASIC segment is never the premium choice.
C16_PremiumChoice ==
    /\ (Returned("generate_comparative_insights") /\ arg.segments # <<>>) =>
           PremiumChoiceRight(arg.segments, ret[1])
    /\ RunCompared => PremiumChoiceRight(brand_segments, comparative_insights)

\* Two PREMIUM segments of the same rating have been compared: the first one
\* is the premium choice.
C16_Witness ==
    /\ Returned("generate_comparative_insights")
    /\ Len(arg.segments) = 2
    /\ arg.segments[1].quality_category = "PREMIUM"
    /\ arg.segments[2].quality_category = "PREMIUM"
    /\ arg.segments[1].avg_rating = arg.segments[2].avg_rating
    /\ arg.segments[1].brand # arg.segments[2].brand
    /\ ret[1].premium_choice = Some(arg.segments[1])

\* The comparative insight of no segment: no best-of, no list, the empty text.
NothingToCompare ==
    [best_value |-> <<>>, highest_quality |-> <<>>, most_affordable |-> <<>>,
     premium_choice |-> <<>>, clean_ingredients |-> <<>>, third_party_tested |-> <<>>,
     comparison_summary |-> <<>>]

\* C17: generate_comparative_insights of no segment returns the four best-of
\* fields None, both lists empty and comparison_summary present and empty; of
\* some segments, a comparison_summary that is never empty (it names at least
\* the highest-rated brand).
C17_EmptyComparison ==
    /\ Returned("generate_comparative_insights") =>
           IF arg.segments = <<>>
           THEN ret[1] = NothingToCompare
           ELSE /\ ret[1].comparison_summary # <<>>
                /\ \E k \in 1..Len(ret[1].comparison_summary) :
                       ret[1].comparison_summary[k] = "For highest quality,"
    /\ (arg.op = "run_full_analysis" /\ comparative_insights # EmptyDict) =>
           IF brand_segments = <<>>
           THEN comparative_insights = NothingToCompare
           ELSE comparative_insights.comparison_summary # <<>>

\* generate_comparative_insights has returned for no segment.
C17_Witness ==
    /\ Returned("generate_comparative_insights")
    /\ arg.segments = <<>>
    /\ "comparison_summary" \in DOMAIN ret[1]
    /\ ret[1].comparison_summary = <<>>
    /\ ret[1].highest_quality = None

\* No phrase is twice in the list.
DuplicateFree(phrases) ==
    \A j, k \in 1..Len(phrases) : j # k => phrases[j] # phrases[k]

\* Where a phrase is first in a list.
FirstPlace(phrases, phrase) ==
    CHOOSE k \in 1..Len(phrases) :
        phrases[k] = phrase /\ \A j \in 1..(k - 1) : phrases[j] # phrase

\* The five lists of an insight hold no phrase twice, and its target audience
\* holds the phrases the rules give for the segment, in first-seen order.
InsightListsRight(segment, insight) ==
    LET target == insight.target_audience
        raw == audience(segment)
    IN  /\ DuplicateFree(insight.strengths)
        /\ DuplicateFree(insight.weaknesses)
        /\ DuplicateFree(insight.recommendations)
        /\ DuplicateFree(insight.key_features)
        /\ DuplicateFree(target)
        /\ {target[k] : k \in 1..Len(target)} = {raw[k] : k \in 1..Len(raw)}
        /\ \A j, k \in 1..Len(target) :
               j < k => FirstPlace(raw, target[j]) < FirstPlace(raw, target[k])

\* C18: every BrandInsight generate_brand_insight makes from a segment that
\* segment_brand built has no phrase twice in strengths, weaknesses,
\* recommendations, key_features and target_audience, and target_audience
\* keeps the first-seen order of its phrases.
C18_InsightListsDuplicateFree ==
    /\ Returned("generate_brand_insight") => InsightListsRight(arg.segment, ret[1])
    /\ arg.op = "run_full_analysis" =>
           \A k \in 1..Len(brand_insights) :
               \E j \in 1..Len(brand_segments) :
                   /\ brand_segments[j].brand = brand_insights[k].brand
                   /\ InsightListsRight(brand_segments[j], brand_insights[k])

\* An insight has been returned for a BASIC, BUDGET segment, whose rules name
\* "Budget-conscious consumers" twice: the audience holds it once.
C18_Witness ==
    /\ Returned("generate_brand_insight")
    /\ arg.segment.quality_category = "BASIC"
    /\ arg.segment.price_category = "BUDGET"
    /\ ~DuplicateFree(audience(arg.segment))
    /\ Len(ret[1].target_audience) = Len(audience(arg.segment)) - 1
    /\ ret[1].strengths # <<>>

\* No best-of field of a comparative insight that was handed outward holds a
\* segment of the run: each holds None or a name.
HandsNamesOnly(comparative) ==
    \A f \in BestOf \cap DOMAIN comparative :
        \/ comparative[f] = None
        \/ \A k \in 1..Len(brand_segments) : comparative[f][1] # brand_segments[k]

\* C19: when the comparative insight of a run is handed outward, saved by
\* save_analysis_results or returned by the /analyze endpoint, each of its four
\* best-of fields holds a brand name or None, never a full BrandSegment.
C19_BestOfHandedAsNames ==
    /\ response_data # None => HandsNamesOnly(response_data[1].comparative_insights)
    /\ saved.comparative_insights # None => HandsNamesOnly(saved.comparative_insights[1])

\* save_analysis_results has written the rows of a run's result.
RowsSaved == arg.op = "run_full_analysis" /\ saved.brand_segmented # None

\* The BrandSegment read back from a brand entry of the segmentation summary.
RebuiltSegment(entry) ==
    [brand |-> entry.brand,
     price_category |-> CategoryOf(entry.price_category),
     quality_category |-> CategoryOf(entry.quality_category),
     avg_rating |-> entry.avg_rating,
     price_per_serving |-> entry.price_per_serving,
     protein_content |-> entry.protein_content,
     third_party_tested |-> entry.third_party_tested,
     artificial_sweeteners |-> entry.artificial_sweeteners,
     features |-> entry.features]

\* Every saved brand entry reads back as the segment it was made from.
SegmentsRoundTrip ==
    LET entries == saved.brand_segmented[1].brands
    IN  /\ Len(entries) = Len(ret[1].brand_segments)
        /\ \A k \in 1..Len(entries) : RebuiltSegment(entries[k]) = ret[1].brand_segments[k]

\* A row holds every field of the BrandSentiment and of each of its statements.
NoFieldLost(sentiment, row) ==
    /\ DOMAIN sentiment \subseteq DOMAIN row
    /\ Len(row.statements) = Len(sentiment.statements)
    /\ \A n \in 1..Len(sentiment.statements) :
           DOMAIN sentiment.statements[n] \subseteq DOMAIN row.statements[n]

\* The original statement of C20: each emitted record round-trips without
\* field loss: a rating row and a sentiment row each hold every field of the
\* BrandSentiment they were made from, the rating row with the averages
\* themselves, and a brand entry reads back as its BrandSegment.
C20_RoundTripWithoutFieldLoss ==
    RowsSaved =>
        /\ SegmentsRoundTrip
        /\ \A k \in 1..Len(ret[1].brand_sentiments) :
               LET sentiment == ret[1].brand_sentiments[k]
                   rating_row == saved.brand_ratings[1][k]
                   sentiment_row == saved.brand_sentiment_analysis[1][k]
               IN  /\ NoFieldLost(sentiment, rating_row)
                   /\ NoFieldLost(sentiment, sentiment_row)
                   /\ 1000 * sentiment.avg_rating.num = rating_row.avg_rating * sentiment.avg_rating.den
                   /\ 1000 * sentiment.avg_score.num = rating_row.avg_score * sentiment.avg_score.den

\* The fields of a statement that a row holds are those of the statement.
StatementsKept(sentiment, row, fields) ==
    /\ Len(row.statements) = Len(sentiment.statements)
    /\ \A n \in 1..Len(sentiment.statements) :
           /\ DOMAIN row.statements[n] = fields
           /\ \A f \in fields : row.statements[n][f] = sentiment.statements[n][f]

\* C20: a brand entry of the segmentation summary reads back as the
\* BrandSegment it was made from; a rating row keeps the brand, the number of
\* statements and each statement's text, label and rating, holds the averages
\* rounded (2 and 3 decimals) and percentages for the counts, and no statement
\* score; a sentiment row keeps the brand and each statement's text, label and
\* score, and no rating, average or count.
C20_RecordsKeepTheirFields ==
    RowsSaved =>
        /\ SegmentsRoundTrip
        /\ Len(saved.brand_ratings[1]) = Len(ret[1].brand_sentiments)
        /\ Len(saved.brand_sentiment_analysis[1]) = Len(ret[1].brand_sentiments)
        /\ \A k \in 1..Len(ret[1].brand_sentiments) :
               LET sentiment == ret[1].brand_sentiments[k]
                   rating_row == saved.brand_ratings[1][k]
                   sentiment_row == saved.brand_sentiment_analysis[1][k]
               IN  /\ rating_row.brand = sentiment.brand
                   /\ rating_row.total_statements = Len(sentiment.statements)
                   /\ StatementsKept(sentiment, rating_row, {"text", "label", "rating"})
                   /\ rating_row.avg_rating =
                          10 * RoundUnits(sentiment.avg_rating.num, sentiment.avg_rating.den, 100)
                   /\ rating_row.avg_score =
                          RoundUnits(sentiment.avg_score.num, sentiment.avg_score.den, 1000)
                   /\ DOMAIN sentiment \cap DOMAIN rating_row =
                          {"brand", "statements", "avg_score", "avg_rating"}
                   /\ DOMAIN sentiment_row = {"brand", "statements"}
                   /\ sentiment_row.brand = sentiment.brand
                   /\ StatementsKept(sentiment, sentiment_row, {"text", "label", "score"})

\* The rows of a run have been saved whose brand has two statements, of mean
\* score 0.8 and mean rating 4.5, and a segment.
C20_Witness ==
    /\ RowsSaved
    /\ Len(ret[1].brand_segments) >= 1
    /\ \E k \in 1..Len(ret[1].brand_sentiments) :
           /\ Len(ret[1].brand_sentiments[k].statements) = 2
           /\ ret[1].brand_sentiments[k].avg_rating = [num |-> 9, den |-> 2]
           /\ saved.brand_ratings[1][k].avg_rating = 4500
           /\ Len(saved.brand_sentiment_analysis[1][k].statements) = 2

IsDelimiter(c) == c \in {".", "!", "?"}

\* The sentences of a text, each by its first and last position: a stretch
\* without delimiter that the start of the text or a delimiter precedes and
\* the end of the text or a delimiter follows; an empty one only at the start
\* or at the end of the text.
SentenceBounds(text) ==
    {b \in (1..(Len(text) + 1)) \X (0..Len(text)) :
        /\ b[1] <= b[2] + 1
        /\ \A k \in b[1]..b[2] : ~IsDelimiter(text[k])
        /\ b[1] = 1 \/ IsDelimiter(text[b[1] - 1])
        /\ b[2] = Len(text) \/ IsDelimiter(text[b[2] + 1])
        /\ b[1] = b[2] + 1 => (b[1] = 1 \/ b[2] = Len(text))}

Blank(s) == \A k \in 1..Len(s) : s[k] = " "

\* A text without the blanks at its two ends.
Trimmed(s) ==
    LET b == CHOOSE c \in (1..(Len(s) + 1)) \X (0..Len(s)) :
                 /\ c[1] <= c[2] + 1
                 /\ Blank(SubSeq(s, 1, c[1] - 1))
                 /\ Blank(SubSeq(s, c[2] + 1, Len(s)))
                 /\ c[1] <= c[2] => (s[c[1]] # " " /\ s[c[2]] # " ")
    IN  SubSeq(s, b[1], b[2])

\* The lower-cased sentence contains the name as a substring.
MentionedIn(sentence, name) ==
    \E offset \in 0..(Len(sentence) - Len(name)) :
        \A j \in 1..Len(name) : LowerChar(sentence[offset + j]) = name[j]

\* The sentences of the text that mention the brand.
SentencesAbout(text, brand) ==
    {b \in SentenceBounds(text) :
        MentionedIn(SubSeq(text, b[1], b[2]), Trimmed(LowerCase(brand)))}

\* C21: extract_statements_about_brand returns exactly the sentences of the
\* transcript whose lower-cased text contains the lower-cased, trimmed brand
\* name, each trimmed and in its original case, in transcript order, nothing
\* else and none omitted.
C21_StatementsAreTheMentioningSentences ==
    Returned("extract_statements_about_brand") =>
        LET about == SentencesAbout(arg.text, arg.brand)
        IN  /\ Len(ret[1]) = Cardinality(about)
            /\ \A b \in about :
                   ret[1][1 + Cardinality({c \in about : c[1] < b[1]})] =
                       Trimmed(SubSeq(arg.text, b[1], b[2]))

\* A padded upper-case brand name has been looked up in a transcript of two
\* sentences, the first of which holds it in lower case between blanks and
\* the second another brand in upper case.
C21_Witness ==
    /\ Returned("extract_statements_about_brand")
    /\ arg.brand = <<" ", "A">>
    /\ arg.text = <<" ", "a", "!", "K">>
    /\ ret[1] = << <<"a">> >>

\* C22: analyze_brand_statements of no statements returns a BrandSentiment
\* without statements, all counts zero and both averages 0.0; and
\* create_rating_summary of a BrandSentiment without statements returns
\* averages 0.0, total_statements 0 and percentages 0.0, whatever averages
\* the BrandSentiment carries.
C22_EmptyIsAllZero ==
    /\ (Returned("analyze_brand_statements") /\ arg.statements = <<>>) =>
           /\ ret[1].statements = <<>>
           /\ ret[1].avg_score = Zero
           /\ ret[1].avg_rating = Zero
           /\ ret[1].positive_count = 0
           /\ ret[1].negative_count = 0
           /\ ret[1].neutral_count = 0
    /\ (Returned("create_rating_summary") /\ arg.brand_sentiment.statements = <<>>) =>
           /\ ret[1].brand = arg.brand_sentiment.brand
           /\ ret[1].avg_rating = 0
           /\ ret[1].avg_score = 0
           /\ ret[1].total_statements = 0
           /\ ret[1].positive_percentage = 0
           /\ ret[1].negative_percentage = 0
           /\ ret[1].neutral_percentage = 0
           /\ ret[1].statements = <<>>

\* create_rating_summary has returned the all-zero row for the BrandSentiment
\* of averages 0.5 and 3.0 that the run gives a brand without statements.
C22_Witness ==
    /\ Returned("create_rating_summary")
    /\ arg.brand_sentiment = neutral_sentiment("Accent")
    /\ arg.brand_sentiment.avg_rating = [num |-> 3, den |-> 1]
    /\ ret[1].avg_rating = 0
    /\ ret[1].avg_score = 0

\* The segments of `segments` that are candidates for best value.
HighQuality(segments) ==
    {k \in 1..Len(segments) : segments[k].quality_category \in {"STANDARD", "PREMIUM"}}

\* A winner without price is the only candidate.
UnknownWinsAlone(segments, insights) ==
    /\ (insights.best_value # None /\ insights.best_value[1].price_per_serving = None) =>
           Cardinality(HighQuality(segments)) = 1
    /\ (insights.most_affordable # None /\ insights.most_affordable[1].price_per_serving = None) =>
           Len(segments) = 1

\* The original statement of C23: in generate_comparative_insights a segment
\* whose price is unknown is returned as best_value only if it is the only
\* segment of quality STANDARD or PREMIUM, and as most_affordable only if it
\* is the only segment of the collection.
C23_UnknownPriceWinsOnlyAlone ==
    /\ (Returned("generate_comparative_insights") /\ arg.segments # <<>>) =>
           UnknownWinsAlone(arg.segments, ret[1])
    /\ RunCompared => UnknownWinsAlone(brand_segments, comparative_insights)

\* The segment has no price above zero that the ranking could use.
Unpriced(segment) ==
    segment.price_per_serving = None \/ segment.price_per_serving[1] = 0

\* A winner without price has only candidates without a usable price beside it.
UnknownWinsAmongUnknown(segments, insights) ==
    /\ (insights.best_value # None /\ insights.best_value[1].price_per_serving = None) =>
           \A k \in HighQuality(segments) : Unpriced(segments[k])
    /\ (insights.most_affordable # None /\ insights.most_affordable[1].price_per_serving = None) =>
           \A k \in 1..Len(segments) : Unpriced(segments[k])

\* C23: in generate_comparative_insights a segment whose price is unknown is
\* returned as best_value only if no segment of quality STANDARD or PREMIUM
\* has a price above zero, and as most_affordable only if no segment of the
\* collection has one.
C23_UnknownPriceWinsOnlyAmongUnknown ==
    /\ (Returned("generate_comparative_insights") /\ arg.segments # <<>>) =>
           UnknownWinsAmongUnknown(arg.segments, ret[1])
    /\ RunCompared => UnknownWinsAmongUnknown(brand_segments, comparative_insights)

\* The comparison of a STANDARD and a PREMIUM segment, both without price,
\* has returned: the first is both the best value and the most affordable.
C23_Witness ==
    /\ Returned("generate_comparative_insights")
    /\ Len(arg.segments) = 2
    /\ \A k \in 1..2 : arg.segments[k].price_per_serving = None
    /\ arg.segments[1].quality_category = "STANDARD"
    /\ arg.segments[2].quality_category = "PREMIUM"
    /\ ret[1].best_value = Some(arg.segments[1])
    /\ ret[1].most_affordable = Some(arg.segments[1])

\* A run has returned a result for at least one brand.
RunCompleted == Returned("run_full_analysis") /\ ret[1].brands # <<>>

\* The place of the first rating row whose avg_rating is the highest, and of
\* the first whose avg_rating is the lowest.
FirstHighest(rows) ==
    CHOOSE k \in 1..Len(rows) :
        /\ \A j \in 1..Len(rows) : rows[j].avg_rating <= rows[k].avg_rating
        /\ \A j \in 1..(k - 1) : rows[j].avg_rating < rows[k].avg_rating

FirstLowest(rows) ==
    CHOOSE k \in 1..Len(rows) :
        /\ \A j \in 1..Len(rows) : rows[j].avg_rating >= rows[k].avg_rating
        /\ \A j \in 1..(k - 1) : rows[j].avg_rating > rows[k].avg_rating

\* C24: ties on avg_rating go to the first brand in discovery order: in every
\* completed run the roll-up highest_rated_brand and the comparative
\* highest_quality are both the first brand of maximal avg_rating, so they
\* name the same brand, and lowest_rated_brand is the first brand of minimal
\* avg_rating.
C24_TiesGoToTheFirstBrand ==
    RunCompleted =>
        LET rows == ret[1].brand_ratings
            highest_quality == ret[1].comparative_insights.highest_quality
        IN  /\ ret[1].summary.highest_rated_brand.brand = ret[1].brands[FirstHighest(rows)]
            /\ ret[1].summary.lowest_rated_brand.brand = ret[1].brands[FirstLowest(rows)]
            /\ highest_quality # None
            /\ highest_quality[1].brand = ret[1].brands[FirstHighest(rows)]
            /\ highest_quality[1].brand = ret[1].summary.highest_rated_brand.brand

\* C25: in the roll-up summary of every completed run the three price counts
\* are the numbers of segments of price category BUDGET, PREMIUM and
\* MID_RANGE, the two quality counts the numbers of segments of quality
\* STANDARD or PREMIUM and of quality BASIC, none is negative, and each
\* distribution sums to total_brands_analyzed.
C25_DistributionsCountSegments ==
    RunCompleted =>
        LET segments == ret[1].brand_segments
            prices == ret[1].summary.price_distribution
            qualities == ret[1].summary.quality_distribution
            total == ret[1].summary.total_brands_analyzed
        IN  /\ prices.budget_brands = CountCategory(segments, "price_category", {"BUDGET"})
            /\ prices.premium_brands = CountCategory(segments, "price_category", {"PREMIUM"})
            /\ prices.mid_range_brands = CountCategory(segments, "price_category", {"MID_RANGE"})
            /\ qualities.high_quality_brands =
                   CountCategory(segments, "quality_category", {"STANDARD", "PREMIUM"})
            /\ qualities.basic_quality_brands =
                   CountCategory(segments, "quality_category", {"BASIC"})
            /\ \A f \in DOMAIN prices : prices[f] >= 0
            /\ \A f \in DOMAIN qualities : qualities[f] >= 0
            /\ prices.budget_brands + prices.premium_brands + prices.mid_range_brands = total
            /\ qualities.high_quality_brands + qualities.basic_quality_brands = total

\* The label and the star rating of a result agree.
LabelAndRatingAgree(result) ==
    /\ result.label = "POSITIVE" => result.rating \in {4, 5}
    /\ result.label = "NEGATIVE" => result.rating \in {1, 2}
    /\ result.label = "NEUTRAL" => result.rating \in {3, 4}
    /\ (result.label = "NEUTRAL" /\ result.rating = 4) <=> (result.score = [num |-> 3, den |-> 5])

\* C28: label and star rating of a statement never contradict each other: a
\* POSITIVE result has rating 4 or 5, a NEGATIVE one 1 or 2, a NEUTRAL one 3
\* or 4, and NEUTRAL with rating 4 occurs exactly when the score is exactly
\* 0.6.
C28_LabelAndRatingAgree ==
    /\ Returned("analyze_statement") => LabelAndRatingAgree(ret[1])
    /\ Returned("analyze_brand_statements") =>
           \A k \in 1..Len(ret[1].statements) : LabelAndRatingAgree(ret[1].statements[k])

\* A statement of three positive and two negative keywords has been scored
\* 0.6: NEUTRAL, four stars.
C28_Witness ==
    /\ Returned("analyze_statement")
    /\ arg.text.pos = 3 /\ arg.text.neg = 2 /\ arg.text.neu = 0
    /\ ret[1].score = [num |-> 3, den |-> 5]
    /\ ret[1].label = "NEUTRAL"
    /\ ret[1].rating = 4

\* premium_choice and best_value of `insights` agree with highest_quality and
\* with the ratings of `segments`.
PremiumIsHighest(segments, insights) ==
    /\ insights.premium_choice # None => insights.premium_choice = insights.highest_quality
    /\ insights.best_value = None =>
           /\ \A k \in 1..Len(segments) : segments[k].avg_rating <= 4000
           /\ insights.premium_choice = None

\* C29: for every non-empty segment collection whose quality categories
\* segment_brand derived from avg_rating, premium_choice, when not None, is
\* the same segment as highest_quality, and when best_value is None every
\* segment has avg_rating <= 4.0 and premium_choice is None too.
C29_PremiumChoiceIsHighestQuality ==
    /\ (Returned("generate_comparative_insights") /\ arg.segments # <<>>) =>
           PremiumIsHighest(arg.segments, ret[1])
    /\ RunCompared => PremiumIsHighest(brand_segments, comparative_insights)

\* The comparison of a STANDARD segment and, after it, a PREMIUM segment has
\* returned: the PREMIUM segment is both the premium choice and the highest
\* quality, and there is a best value.
C29_Witness ==
    /\ Returned("generate_comparative_insights")
    /\ Len(arg.segments) = 2
    /\ arg.segments[1].quality_category = "STANDARD"
    /\ arg.segments[2].quality_category = "PREMIUM"
    /\ ret[1].premium_choice = Some(arg.segments[2])
    /\ ret[1].highest_quality = Some(arg.segments[2])
    /\ ret[1].best_value # None

\* C30: whenever discovery returns at least one brand, the run produces a
\* rating row and a sentiment record for every brand, takes no early return
\* and skips no segment: its result has a non-empty summary and comparative
\* insight, and brand_insights holds exactly one insight per segment, in
\* segment order.
C30_NothingSkipped ==
    RunCompleted =>
        /\ Len(ret[1].brand_ratings) = Len(ret[1].brands)
        /\ Len(ret[1].brand_sentiments) = Len(ret[1].brands)
        /\ \A k \in 1..Len(ret[1].brands) :
               /\ ret[1].brand_ratings[k].brand = ret[1].brands[k]
               /\ ret[1].brand_sentiments[k].brand = ret[1].brands[k]
        /\ ret[1].summary # EmptyDict
        /\ "total_brands_analyzed" \in DOMAIN ret[1].summary
        /\ ret[1].comparative_insights # EmptyDict
        /\ Len(ret[1].brand_insights) = Len(ret[1].brand_segments)
        /\ \A k \in 1..Len(ret[1].brand_segments) :
               ret[1].brand_insights[k].brand = ret[1].brand_segments[k].brand

\* A run over two brands has returned, one of them without any statement:
\* two rating rows, two segments and two insights.
C30_Witness ==
    /\ RunCompleted
    /\ ret[1].brands = <<"Accent", "Isopure">>
    /\ ret[1].brand_ratings[1].total_statements = 1
    /\ ret[1].brand_ratings[2].total_statements = 0
    /\ Len(ret[1].brand_segments) = 2
    /\ Len(ret[1].brand_insights) = 2
    /\ ret[1].brand_insights[2].brand = "Isopure"

\* A step of a run is the next one in that order: the run goes on to a later
\* phase, or a loop goes on to its next element; the per-brand loop appends
\* the row and the record of brand i and is left after the last brand;
\* segmentation starts with a rating row for every brand and is left after
\* the last row; the comparative insight is computed once, from the segments
\* as they stay; no phase touches what an earlier one made.
InOrder ==
    (earlier' = earlier /\ PhaseOf(pc) < 6) =>
        /\ \/ PhaseOf(pc') > PhaseOf(pc)
           \/ pc' = pc /\ pc \in {"brands", "segment", "insight"} /\ i' = i + 1
        /\ brands' # brands => pc = "start"
        /\ pc = "brands" =>
               /\ Len(brand_ratings) = i - 1
               /\ Len(brand_sentiments) = i - 1
               /\ Len(brand_ratings') = i
               /\ Len(brand_sentiments') = i
               /\ brand_ratings'[i].brand = brands[i]
               /\ brand_sentiments'[i].brand = brands[i]
               /\ pc' # pc => i = Len(brands)
        /\ pc # "brands" => (brand_ratings' = brand_ratings /\ brand_sentiments' = brand_sentiments)
        /\ pc' = "segment" => Len(brand_ratings') = Len(brands')
        /\ (pc = "segment" /\ pc' # pc) => i = Len(brand_ratings)
        /\ pc # "segment" => brand_segments' = brand_segments
        /\ (pc = "insight" /\ pc' # pc) => i = Len(brand_segments)
        /\ pc # "insight" => brand_insights' = brand_insights
        /\ pc = "comparative" =>
               comparative_insights' = generate_comparative_insights(brand_segments')
        /\ pc # "comparative" => comparative_insights' = comparative_insights
        /\ pc # "summary" => summary' = summary

\* run_full_analysis has returned or raised.
RunEnded == PhaseOf(pc) = 6

\* C26: every run of run_full_analysis ends, and its steps occur strictly in
\* the order discover, per-brand sentiment (each brand once, in discovery
\* order), segmentation, per-segment insight, comparative insight, roll-up
\* summary: segmentation never starts before every brand has its rating row,
\* the comparative insight is computed only over the full segment set, and no
\* step is repeated.
C26_RunsInOrderToTheEnd ==
    /\ [][InOrder]_vars
    /\ [](pc = "start" => <>RunEnded)

\* A run over two brands has gone through every phase and returned: a roll-up
\* summary over two rating rows, a comparison of two segments.
C26_Witness ==
    /\ pc = "done"
    /\ ret # None
    /\ Len(brands) = 2
    /\ Len(brand_ratings) = 2
    /\ Len(brand_segments) = 2
    /\ Len(brand_insights) = 2
    /\ comparative_insights # EmptyDict
    /\ summary # EmptyDict
    /\ ret[1].summary = summary

\* C27: a run does not depend on the runs before it on the same engine: the
\* second run of a transcript, given the same discovery response, ends as the
\* first did and returns an equal AnalysisResult, whatever brands the runs in
\* between added to known_brands, a set that only grows.
C27_RunsAreIndependent ==
    earlier # None =>
        /\ earlier[1].known_brands \subseteq known_brands
        /\ RunEnded => (pc # "raised" /\ ret = Some(earlier[1].result))

\* The same, of the engines in whose known_brands no earlier run left a number.
RunsAreIndependentAmongNames ==
    (earlier # None /\ ~PatternsRaise(known_brands)) =>
        /\ earlier[1].known_brands \subseteq known_brands
        /\ RunEnded => (pc # "raised" /\ ret = Some(earlier[1].result))

\* A second run has returned a result for a brand, on an engine that knows a
\* brand of another run.
SecondRunReturned ==
    /\ earlier # None
    /\ pc = "done"
    /\ ret[1].brands = <<"Accent">>
    /\ "Isopure" \in known_brands
====
